---------------------------- MODULE Spec2Model ----------------------------
(***************************************************************************)
(* Model of the metadata line stripper of lyrics_helper_rs                 *)
(* (converter/processors/metadata_stripper.rs) with its regex cache, and   *)
(* of the parts of the Unilyric application around it: the syllable        *)
(* smoother, the metadata working set and its editor, and the              *)
(* post-processing menu (app_ui.rs, app_actions.rs).  Each component has    *)
(* its own specification over the shared variables: Spec and SpecWindow     *)
(* (stripper), SpecCache, SpecSmoother, SpecMetadata, SpecEditor and        *)
(* SpecProcessors, and SpecInputPanel (the main input panel).               *)
(*                                                                         *)
(* A Rust String is a sequence of characters; a character is a one-letter  *)
(* TLA+ string.  Characters outside ASCII are written as tokens:          *)
(* "FWCOLON" is the full-width colon U+FF1A, "ZUO" and "QU" are the two    *)
(* characters of the keyword U+4F5C U+66F2.  Indices into a Vec or a str   *)
(* keep Rust's 0-based values; element i of a Vec v is v[i + 1].           *)
(***************************************************************************)
EXTENDS Integers, Sequences, FiniteSets, TLC

VARIABLES
    lines,        \* the Vec<LyricLine> the stripper is applied to
    options,      \* the caller's MetadataStripperOptions
    input,        \* the lines before the first call
    prev_lines,   \* the lines before the most recent call
    calls,        \* number of completed strip_descriptive_metadata_lines calls
    regex_cache,  \* REGEX_CACHE: (pattern, case_sensitive) -> Regex
    cache_lock,   \* the thread holding the Mutex of REGEX_CACHE, if any
    threads,      \* per thread: where it stands in get_cached_regex
    smoothed_line,    \* the LyricLine the syllable smoother works on
    smoothing,        \* the SyllableSmoothingOptions
    smoothing_input,  \* the line before smoothing
    iterations_done,  \* smoothing iterations completed
    ui_entries,       \* metadata_manager.ui_entries
    key_field,        \* egui's memory of the custom key text fields
    actions_sent,     \* the actions the most recent frame sent, in order
    merge_source,     \* after a merge: the working set and the parsed metadata it had
    parsed_lyric_data,  \* lyrics.parsed_lyric_data
    action_queue,     \* actions sent and not yet handled
    input_text,              \* lyrics.input_text
    output_text,             \* lyrics.output_text
    conversion_in_progress,  \* lyrics.conversion_in_progress
    clipboard                \* the text on the system clipboard, if any

stripper_vars == <<lines, options, input, prev_lines, calls>>

cache_vars == <<cache_lock, threads>>

smoother_vars == <<smoothed_line, smoothing, smoothing_input, iterations_done>>

metadata_vars == <<ui_entries, key_field, merge_source>>

processor_vars == <<parsed_lyric_data, action_queue>>

panel_vars == <<input_text, output_text, conversion_in_progress, clipboard>>

vars == <<lines, options, input, prev_lines, calls, regex_cache, cache_lock, threads,
          smoothed_line, smoothing, smoothing_input, iterations_done,
          ui_entries, key_field, actions_sent, merge_source,
          parsed_lyric_data, action_queue,
          input_text, output_text, conversion_in_progress, clipboard>>

\* What the steps of one component leave alone
app_vars == <<metadata_vars, actions_sent, processor_vars, panel_vars>>
outside_stripper == <<cache_vars, smoother_vars, app_vars>>
outside_cache == <<stripper_vars, smoother_vars, app_vars>>
outside_smoother == <<stripper_vars, regex_cache, cache_vars, app_vars>>
outside_app == <<stripper_vars, regex_cache, cache_vars, smoother_vars>>

---------------------------------------------------------------------------
(* Bounds of the model. *)

MaxLines == 4
MaxLimit == 4
MaxCalls == 2
MaxSyllables == 3     \* syllables of the smoothed track
MaxTime == 4          \* largest timestamp of a syllable
MaxIterations == 2    \* largest smoothing iteration count
MaxEntries == 3       \* metadata entries of the working set
MaxApplied == 3       \* processor runs on one lyric document

---------------------------------------------------------------------------
(* str primitives *)

None == [some |-> FALSE]
Some(v) == [some |-> TRUE, val |-> v]

UpperChars == <<"A", "B", "C", "D", "E", "F", "G", "H", "I", "J", "K", "L", "M",
                "N", "O", "P", "Q", "R", "S", "T", "U", "V", "W", "X", "Y", "Z">>
LowerChars == <<"a", "b", "c", "d", "e", "f", "g", "h", "i", "j", "k", "l", "m",
                "n", "o", "p", "q", "r", "s", "t", "u", "v", "w", "x", "y", "z">>

\* char::to_lowercase: an upper-case ASCII letter becomes its lower-case
\* letter, every other character of the model is its own lower case.
char_to_lowercase(c) ==
    IF \E i \in 1..26 : UpperChars[i] = c
    THEN LowerChars[CHOOSE i \in 1..26 : UpperChars[i] = c]
    ELSE c

\* str::to_lowercase
to_lowercase(s) == [i \in 1..Len(s) |-> char_to_lowercase(s[i])]

\* char::is_whitespace, for the white space of the model's alphabet
is_whitespace(c) == c \in {" ", "\t"}

\* str::trim_start
RECURSIVE trim_start(_)
trim_start(s) ==
    IF s # <<>> /\ is_whitespace(Head(s)) THEN trim_start(Tail(s)) ELSE s

\* str::trim_end
RECURSIVE trim_end(_)
trim_end(s) ==
    IF s # <<>> /\ is_whitespace(s[Len(s)])
    THEN trim_end(SubSeq(s, 1, Len(s) - 1))
    ELSE s

\* str::trim
trim(s) == trim_end(trim_start(s))

\* str::starts_with(char) and str::ends_with(char)
starts_with_char(s, c) == s # <<>> /\ s[1] = c
ends_with_char(s, c) == s # <<>> /\ s[Len(s)] = c

\* str::find(char): the 0-based index of the first occurrence
find_char(s, c) ==
    IF \E i \in 1..Len(s) : s[i] = c
    THEN Some((CHOOSE i \in 1..Len(s) : s[i] = c /\ \A j \in 1..(i - 1) : s[j] # c) - 1)
    ELSE None

\* &s[from..to] and &s[from..] with 0-based bounds, to exclusive
str_slice(s, from, to) == SubSeq(s, from + 1, to)
str_slice_from(s, from) == SubSeq(s, from + 1, Len(s))

\* str::strip_prefix(&str)
strip_prefix(s, prefix) ==
    IF Len(prefix) <= Len(s) /\ SubSeq(s, 1, Len(prefix)) = prefix
    THEN Some(SubSeq(s, Len(prefix) + 1, Len(s)))
    ELSE None

---------------------------------------------------------------------------
(* The regex crate, for the pattern language the model's patterns use: an   *)
(* optional leading ^ (start of the text, multi_line being off) followed by *)
(* literal characters.  A pattern whose groups are not closed is malformed. *)

count_char(s, c) == Cardinality({i \in 1..Len(s) : s[i] = c})

\* RegexBuilder::new(pattern).case_insensitive(ci).multi_line(false).build()
RegexBuilder_build(pattern, case_insensitive) ==
    IF count_char(pattern, "(") # count_char(pattern, ")")
    THEN None
    ELSE Some([pattern |-> pattern, case_insensitive |-> case_insensitive])

\* Regex::is_match: the pattern matches somewhere in the text
Regex_is_match(regex, text) ==
    LET anchored == starts_with_char(regex.pattern, "^")
        literal == IF anchored THEN Tail(regex.pattern) ELSE regex.pattern
        lit == IF regex.case_insensitive THEN to_lowercase(literal) ELSE literal
        txt == IF regex.case_insensitive THEN to_lowercase(text) ELSE text
    IN  IF anchored
        THEN strip_prefix(txt, lit).some
        ELSE \E i \in 0..(Len(txt) - Len(lit)) :
                 SubSeq(txt, i + 1, i + Len(lit)) = lit

---------------------------------------------------------------------------
(* The regex cache *)

\* A mutant of cache_key: the case flag is left out of the key.
cache_key_pattern_only(pattern, case_sensitive) == <<pattern, TRUE>>

\* let key = (pattern.to_string(), case_sensitive)
cache_key(pattern, case_sensitive) == <<pattern, case_sensitive>>

\* HashMap::get
cache_get(cache, key) ==
    IF key \in DOMAIN cache THEN Some(cache[key]) ELSE None

\* A mutant of cache_or_insert: HashMap::insert, which replaces the value
\* of a key that is present.
cache_insert_replacing(cache, key, value) ==
    (key :> value) @@ cache

\* HashMap::entry(key).or_insert(value): the map afterwards
cache_or_insert(cache, key, value) ==
    IF key \in DOMAIN cache THEN cache ELSE (key :> value) @@ cache

\* A mutant of get_cached_regex: the flag is handed to case_insensitive
\* without its negation.
get_cached_regex_flag_not_negated(cache, pattern, case_sensitive) ==
    LET key == <<pattern, case_sensitive>>
        hit == cache_get(cache, key)
        built == RegexBuilder_build(pattern, case_sensitive)
    IN  IF hit.some
        THEN [regex |-> Some(hit.val), cache |-> cache]
        ELSE IF ~built.some
        THEN [regex |-> None, cache |-> cache]
        ELSE LET after == cache_or_insert(cache, key, built.val)
             IN  [regex |-> Some(after[key]), cache |-> after]

\* get_cached_regex, run without interruption: the Option<Regex> it returns
\* and the cache it leaves.
get_cached_regex(cache, pattern, case_sensitive) ==
    LET key == cache_key(pattern, case_sensitive)
        hit == cache_get(cache, key)
        built == RegexBuilder_build(pattern, ~case_sensitive)
    IN  IF hit.some
        THEN [regex |-> Some(hit.val), cache |-> cache]
        ELSE IF ~built.some
        THEN [regex |-> None, cache |-> cache]
        ELSE LET after == cache_or_insert(cache, key, built.val)
             IN  [regex |-> Some(after[key]), cache |-> after]

---------------------------------------------------------------------------
(* MetadataStripperFlags, MetadataStripperOptions and LyricLine *)

\* MetadataStripperFlags::ENABLED (ENABLED is a reserved word of TLA+)
FLAG_ENABLED == "ENABLED"
KEYWORD_CASE_SENSITIVE == "KEYWORD_CASE_SENSITIVE"
ENABLE_REGEX_STRIPPING == "ENABLE_REGEX_STRIPPING"
REGEX_CASE_SENSITIVE == "REGEX_CASE_SENSITIVE"

MetadataStripperFlags ==
    {FLAG_ENABLED, KEYWORD_CASE_SENSITIVE, ENABLE_REGEX_STRIPPING, REGEX_CASE_SENSITIVE}

\* The scan-limit policy of header_scan_limit / footer_scan_limit: a fixed
\* count of lines, or a fraction value/4 of the total line count.
Fixed(n) == [kind |-> "Fixed", value |-> n]
Fraction(q) == [kind |-> "Fraction", value |-> q]

\* ScanLimit::calculate(total_lines)
calculate(limit, total_lines) ==
    IF limit.kind = "Fixed"
    THEN limit.value
    ELSE (total_lines * limit.value + 3) \div 4

\* LyricLine::main_text() of a line, and get_text
LyricLine(start_time, text) == [start_time |-> start_time, main_text |-> text]

get_text(line) == IF line.main_text.some THEN line.main_text.val ELSE <<>>

---------------------------------------------------------------------------
(* StrippingRules *)

\* The filter_map over options.regex_patterns in StrippingRules::new: blank
\* patterns and patterns that do not compile are left out, the others are
\* fetched through the cache in order.
\* A mutant of compile_patterns: the first pattern that does not compile
\* ends the collection, and the patterns after it are lost.
RECURSIVE compile_patterns_stopping_at_failure(_, _, _)
compile_patterns_stopping_at_failure(patterns, case_sensitive, cache) ==
    IF patterns = <<>>
    THEN [regexes |-> <<>>, cache |-> cache]
    ELSE IF trim(Head(patterns)) = <<>>
    THEN compile_patterns_stopping_at_failure(Tail(patterns), case_sensitive, cache)
    ELSE LET got == get_cached_regex(cache, Head(patterns), case_sensitive)
             rest == compile_patterns_stopping_at_failure(Tail(patterns),
                                                          case_sensitive, got.cache)
         IN  IF got.regex.some
             THEN [regexes |-> <<got.regex.val>> \o rest.regexes, cache |-> rest.cache]
             ELSE [regexes |-> <<>>, cache |-> got.cache]

RECURSIVE compile_patterns(_, _, _)
compile_patterns(patterns, case_sensitive, cache) ==
    IF patterns = <<>>
    THEN [regexes |-> <<>>, cache |-> cache]
    ELSE IF trim(Head(patterns)) = <<>>
    THEN compile_patterns(Tail(patterns), case_sensitive, cache)
    ELSE LET got == get_cached_regex(cache, Head(patterns), case_sensitive)
             rest == compile_patterns(Tail(patterns), case_sensitive, got.cache)
         IN  [regexes |-> IF got.regex.some
                          THEN <<got.regex.val>> \o rest.regexes
                          ELSE rest.regexes,
              cache |-> rest.cache]

\* A mutant of prepare_keywords: the keywords are never case-folded.
prepare_keywords_as_given(keywords, keyword_case_sensitive) == keywords

\* The Cow prepared_keywords of StrippingRules::new: the caller's keywords
\* when matching is case-sensitive, their lower-case copies otherwise.
prepare_keywords(keywords, keyword_case_sensitive) ==
    IF keyword_case_sensitive
    THEN keywords
    ELSE [i \in 1..Len(keywords) |-> to_lowercase(keywords[i])]

\* StrippingRules::new: the rules, and the regex cache it leaves
StrippingRules_new(opts, cache) ==
    LET compiled ==
            IF ENABLE_REGEX_STRIPPING \in opts.flags /\ opts.regex_patterns # <<>>
            THEN compile_patterns(opts.regex_patterns,
                                  REGEX_CASE_SENSITIVE \in opts.flags, cache)
            ELSE [regexes |-> <<>>, cache |-> cache]
        keyword_case_sensitive == KEYWORD_CASE_SENSITIVE \in opts.flags
    IN  [rules |-> [prepared_keywords |->
                        prepare_keywords(opts.keywords, keyword_case_sensitive),
                    keyword_case_sensitive |-> keyword_case_sensitive,
                    compiled_regexes |-> compiled.regexes],
         cache |-> compiled.cache]

\* StrippingRules::has_rules
has_rules(rules) == rules.prepared_keywords # <<>> \/ rules.compiled_regexes # <<>>

---------------------------------------------------------------------------
(* line_matches_rules *)

\* A mutant of text_for_keyword_check: the text is trimmed and nothing else.
text_for_keyword_check_trim_only(line_to_check) == trim(line_to_check)

\* The block that computes text_for_keyword_check
text_for_keyword_check(line_to_check) ==
    LET text == trim(line_to_check)
    IN  IF starts_with_char(text, "[") /\ ends_with_char(text, "]")
        THEN str_slice(text, 1, Len(text) - 1)
        ELSE IF starts_with_char(text, "[")
        THEN LET end_bracket_idx == find_char(text, "]")
             IN  IF end_bracket_idx.some
                 THEN trim_start(str_slice_from(text, end_bracket_idx.val + 1))
                 ELSE text
        ELSE IF starts_with_char(text, "(") /\ ends_with_char(text, ")")
        THEN str_slice(text, 1, Len(text) - 1)
        ELSE IF starts_with_char(text, "(") /\ find_char(text, ")").some
        THEN trim_start(str_slice_from(text, find_char(text, ")").val + 1))
        ELSE text

\* A mutant of keyword_rule_matches: a prepared keyword that is a prefix of
\* the prepared line is enough, whatever follows it.
keyword_rule_matches_prefix_only(line_to_check, rules) ==
    /\ rules.prepared_keywords # <<>>
    /\ LET checked == text_for_keyword_check(line_to_check)
           prepared_line == IF rules.keyword_case_sensitive
                            THEN checked
                            ELSE to_lowercase(checked)
       IN  \E k \in 1..Len(rules.prepared_keywords) :
               strip_prefix(prepared_line, rules.prepared_keywords[k]).some

\* The keyword loop: some prepared keyword is a prefix of the prepared line
\* and what follows it starts, after white space, with a colon.
keyword_rule_matches(line_to_check, rules) ==
    /\ rules.prepared_keywords # <<>>
    /\ LET checked == text_for_keyword_check(line_to_check)
           prepared_line == IF rules.keyword_case_sensitive
                            THEN checked
                            ELSE to_lowercase(checked)
       IN  \E k \in 1..Len(rules.prepared_keywords) :
               LET stripped == strip_prefix(prepared_line, rules.prepared_keywords[k])
               IN  /\ stripped.some
                   /\ \/ starts_with_char(trim_start(stripped.val), ":")
                      \/ starts_with_char(trim_start(stripped.val), "FWCOLON")

\* A mutant of regex_rule_matches: the regexes are tried on the text the
\* keyword check is made on.
regex_rule_matches_on_checked_text(line_to_check, rules) ==
    /\ rules.compiled_regexes # <<>>
    /\ \E r \in 1..Len(rules.compiled_regexes) :
           Regex_is_match(rules.compiled_regexes[r],
                          text_for_keyword_check(line_to_check))

\* The regex test: some compiled regex matches the raw line
regex_rule_matches(line_to_check, rules) ==
    /\ rules.compiled_regexes # <<>>
    /\ \E r \in 1..Len(rules.compiled_regexes) :
           Regex_is_match(rules.compiled_regexes[r], line_to_check)

line_matches_rules(line_to_check, rules) ==
    IF keyword_rule_matches(line_to_check, rules)
    THEN TRUE
    ELSE IF regex_rule_matches(line_to_check, rules)
    THEN TRUE
    ELSE FALSE

---------------------------------------------------------------------------
(* The two scans *)

Min(a, b) == IF a <= b THEN a ELSE b
Max(a, b) == IF a >= b THEN a ELSE b

\* usize::saturating_sub
saturating_sub(a, b) == IF a >= b THEN a - b ELSE 0

\* A mutant of find_first_lyric_line_index: the scan is not cut at the limit.
find_first_lyric_line_index_without_limit(ls, rules, limit) ==
    LET matching == {i \in 0..(Len(ls) - 1) :
                         line_matches_rules(get_text(ls[i + 1]), rules)}
    IN  IF matching = {}
        THEN 0
        ELSE (CHOOSE i \in matching : \A j \in matching : j <= i) + 1

\* A mutant of find_first_lyric_line_index: the cut is put after the first
\* matching line of the window, not after the last.
find_first_lyric_line_index_first_match(ls, rules, limit) ==
    LET matching == {i \in 0..(Min(limit, Len(ls)) - 1) :
                         line_matches_rules(get_text(ls[i + 1]), rules)}
    IN  IF matching = {}
        THEN 0
        ELSE (CHOOSE i \in matching : \A j \in matching : i <= j) + 1

\* A mutant of find_first_lyric_line_index: 1, not 0, when no line matches.
find_first_lyric_line_index_default_one(ls, rules, limit) ==
    LET matching == {i \in 0..(Min(limit, Len(ls)) - 1) :
                         line_matches_rules(get_text(ls[i + 1]), rules)}
    IN  IF matching = {}
        THEN 1
        ELSE (CHOOSE i \in matching : \A j \in matching : j <= i) + 1

\* A mutant of find_first_lyric_line_index: the scan covers limit + 1 lines.
find_first_lyric_line_index_one_past_limit(ls, rules, limit) ==
    LET scanned == 0..(Min(limit + 1, Len(ls)) - 1)
        matching == {i \in scanned : line_matches_rules(get_text(ls[i + 1]), rules)}
    IN  IF matching = {}
        THEN 0
        ELSE (CHOOSE i \in matching : \A j \in matching : j <= i) + 1

find_first_lyric_line_index(ls, rules, limit) ==
    LET scanned == 0..(Min(limit, Len(ls)) - 1)
        matching == {i \in scanned : line_matches_rules(get_text(ls[i + 1]), rules)}
        last_matching_header_index ==
            IF matching = {}
            THEN None
            ELSE Some(CHOOSE i \in matching : \A j \in matching : j <= i)
    IN  IF last_matching_header_index.some
        THEN last_matching_header_index.val + 1
        ELSE 0

\* A mutant of find_last_lyric_line_exclusive_index: the footer scan starts
\* at the footer window, also when that is before the header cut.
find_last_lyric_line_exclusive_index_from_window(ls, first_lyric_index, rules, limit) ==
    IF first_lyric_index >= Len(ls)
    THEN first_lyric_index
    ELSE LET footer_scan_start_index == saturating_sub(Len(ls), limit)
             matching ==
                 {i \in footer_scan_start_index..(Len(ls) - 1) :
                      line_matches_rules(get_text(ls[i + 1]), rules)}
         IN  IF matching = {}
             THEN Len(ls)
             ELSE CHOOSE i \in matching : \A j \in matching : i <= j

find_last_lyric_line_exclusive_index(ls, first_lyric_index, rules, limit) ==
    IF first_lyric_index >= Len(ls)
    THEN first_lyric_index
    ELSE LET footer_scan_start_index ==
                 Max(saturating_sub(Len(ls), limit), first_lyric_index)
             matching ==
                 {i \in footer_scan_start_index..(Len(ls) - 1) :
                      line_matches_rules(get_text(ls[i + 1]), rules)}
             first_matching_footer_index ==
                 IF matching = {}
                 THEN None
                 ELSE Some(CHOOSE i \in matching : \A j \in matching : i <= j)
         IN  IF first_matching_footer_index.some
             THEN first_matching_footer_index.val
             ELSE Len(ls)

---------------------------------------------------------------------------
(* Strings of the model: keywords (S_), regex patterns (P_), line texts (T_) *)

S_Producer == <<"P", "r", "o", "d", "u", "c", "e", "r">>
P_Lyrics_by == <<"^", "L", "y", "r", "i", "c", "s", " ", "b", "y">>
S_Artist == <<"A", "r", "t", "i", "s", "t">>
S_Album == <<"A", "l", "b", "u", "m">>
S_Source == <<"S", "o", "u", "r", "c", "e">>
S_ti == <<"t", "i">>
P_NOTE == <<"^", "N", "O", "T", "E", ":">>
P_Blank == <<" ", " ">>
P_Unclosed == <<"(", "L", "i", "v", "e">>
T_Artist_Me == <<"A", "r", "t", "i", "s", "t", ":", " ", "M", "e">>
T_Lyric_line == <<"L", "y", "r", "i", "c", " ", "l", "i", "n", "e">>
T_Artist_A == <<"A", "r", "t", "i", "s", "t", ":", " ", "A">>
T_Album_B == <<"A", "l", "b", "u", "m", ":", " ", "B">>
T_Source_Web == <<"S", "o", "u", "r", "c", "e", ":", " ", "W", "e", "b">>
T_Lyric_1 == <<"L", "y", "r", "i", "c", " ", "1">>
T_Lyric_2 == <<"L", "y", "r", "i", "c", " ", "2">>
T_artist_A == <<"a", "r", "t", "i", "s", "t", ":", " ", "A">>
T_ti_Title == <<"[", "t", "i", ":", "T", "i", "t", "l", "e", "]">>
T_time_Artist_A == <<"[", "0", "0", ":", "0", "1", ".", "0", "0", "]", " ", "A", "r", "t",
    "i", "s", "t", " ", ":", " ", "A">>
T_NOTE_important == <<"N", "O", "T", "E", ":", " ", "i", "m", "p", "o", "r", "t", "a", "n",
    "t">>
T_note_less_important == <<"n", "o", "t", "e", ":", " ", "l", "e", "s", "s", " ", "i", "m",
    "p", "o", "r", "t", "a", "n", "t">>
T_Producer_P == <<"P", "r", "o", "d", "u", "c", "e", "r", ":", " ", "P">>
T_Lyrics_by_L == <<"L", "y", "r", "i", "c", "s", " ", "b", "y", " ", "L">>
T_paren_Artist_A == <<"(", "A", "r", "t", "i", "s", "t", ":", " ", "A", ")">>
T_paren_bg_Artist_A == <<"(", "b", "g", ")", " ", "A", "r", "t", "i", "s", "t", ":", " ",
    "A">>
T_double_ti == <<"[", "[", "t", "i", ":", "T", "i", "t", "l", "e", "]", "]">>
T_open_ti == <<"[", "t", "i", ":", "T", "i", "t", "l", "e">>
T_spaces_Artist_A == <<" ", " ", "A", "r", "t", "i", "s", "t", ":", " ", "A", " ">>
T_bracket_paren_Artist_A == <<"[", "x", ")", " ", "y", "]", " ", "A", "r", "t", "i", "s",
    "t", ":", " ", "A">>
T_spaces_NOTE_x == <<" ", "N", "O", "T", "E", ":", " ", "x">>
T_Artists_X == <<"A", "r", "t", "i", "s", "t", "s", ":", " ", "X">>
T_Artist_no_colon == <<"A", "r", "t", "i", "s", "t", " ", "A">>
T_Artist_full_width == <<"A", "r", "t", "i", "s", "t", " ", "FWCOLON", "A">>

\* default_rules::keywords() and default_rules::regex_patterns(): the lists of
\* assets/default_stripper_config.toml
default_rules_keywords == <<S_Producer, <<"ZUO", "QU">>>>
default_rules_regex_patterns == <<P_Lyrics_by>>

---------------------------------------------------------------------------
(* strip_descriptive_metadata_lines *)

\* Vec::drain(from..) and Vec::drain(..to): the Vec that is left
Vec_drain_from(v, from) == SubSeq(v, 1, from)
Vec_drain_to(v, to) == SubSeq(v, to + 1, Len(v))

\* A mutant of options_to_use: the default lists are never loaded.
options_to_use_without_defaults(opts) == opts

\* A mutant of options_to_use: the default lists are loaded whenever the
\* caller gave no keywords, whatever the caller's patterns.
options_to_use_defaults_for_no_keywords(opts) ==
    IF opts.keywords = <<>>
    THEN [opts EXCEPT !.keywords = default_rules_keywords,
                      !.regex_patterns = default_rules_regex_patterns]
    ELSE opts

\* The Cow options_to_use: a copy with the default lists when the caller gave
\* neither keywords nor patterns, the caller's options otherwise.
options_to_use(opts) ==
    IF opts.keywords = <<>> /\ opts.regex_patterns = <<>>
    THEN [opts EXCEPT !.keywords = default_rules_keywords,
                      !.regex_patterns = default_rules_regex_patterns]
    ELSE opts

\* A mutant of apply_cut: only the line at the footer cut and the line
\* before the header cut are removed, the lines beyond them stay.
apply_cut_boundary_lines_only(ls, first_lyric_index, last_lyric_exclusive_index) ==
    IF first_lyric_index < last_lyric_exclusive_index
    THEN LET tailless ==
                 IF last_lyric_exclusive_index < Len(ls)
                 THEN SubSeq(ls, 1, last_lyric_exclusive_index)
                          \o SubSeq(ls, last_lyric_exclusive_index + 2, Len(ls))
                 ELSE ls
         IN  IF first_lyric_index > 0
             THEN SubSeq(tailless, 1, first_lyric_index - 1)
                      \o SubSeq(tailless, first_lyric_index + 1, Len(tailless))
             ELSE tailless
    ELSE IF first_lyric_index > 0 \/ last_lyric_exclusive_index < Len(ls)
    THEN <<>>
    ELSE ls

\* A mutant of apply_cut: the head is drained before the tail, so that the
\* tail is cut at an index of the shortened Vec.
apply_cut_head_first(ls, first_lyric_index, last_lyric_exclusive_index) ==
    IF first_lyric_index < last_lyric_exclusive_index
    THEN LET headless == Vec_drain_to(ls, first_lyric_index)
         IN  Vec_drain_from(headless, Min(last_lyric_exclusive_index, Len(headless)))
    ELSE IF first_lyric_index > 0 \/ last_lyric_exclusive_index < Len(ls)
    THEN <<>>
    ELSE ls

\* A mutant of apply_cut: when the cut points meet, the lines are kept.
apply_cut_keeping_all(ls, first_lyric_index, last_lyric_exclusive_index) ==
    IF first_lyric_index < last_lyric_exclusive_index
    THEN Vec_drain_to(Vec_drain_from(ls, last_lyric_exclusive_index), first_lyric_index)
    ELSE ls

\* The cut of lines 262-267
apply_cut(ls, first_lyric_index, last_lyric_exclusive_index) ==
    IF first_lyric_index < last_lyric_exclusive_index
    THEN Vec_drain_to(Vec_drain_from(ls, last_lyric_exclusive_index), first_lyric_index)
    ELSE IF first_lyric_index > 0 \/ last_lyric_exclusive_index < Len(ls)
    THEN <<>>
    ELSE ls

\* The function from line 236 on, after the ENABLED test: the lines and the
\* regex cache it leaves
strip_when_enabled(ls, opts, cache) ==
    LET to_use == options_to_use(opts)
        built == StrippingRules_new(to_use, cache)
        rules == built.rules
    IN  IF ls = <<>> \/ ~has_rules(rules)
        THEN [lines |-> ls, cache |-> built.cache]
        ELSE LET original_count == Len(ls)
                 header_limit == calculate(to_use.header_scan_limit, original_count)
                 footer_limit == calculate(to_use.footer_scan_limit, original_count)
                 first_lyric_index ==
                     find_first_lyric_line_index(ls, rules, header_limit)
                 last_lyric_exclusive_index ==
                     find_last_lyric_line_exclusive_index(
                         ls, first_lyric_index, rules, footer_limit)
             IN  [lines |-> apply_cut(ls, first_lyric_index,
                                      last_lyric_exclusive_index),
                  cache |-> built.cache]

\* A mutant of strip_descriptive_metadata_lines: the ENABLED flag is not tested.
strip_ignoring_enabled_flag(ls, opts, cache) == strip_when_enabled(ls, opts, cache)

\* A mutant of strip_descriptive_metadata_lines: the first line is read before
\* the test for an empty Vec, which panics on an empty Vec.
strip_reading_first_line_before_empty_test(ls, opts, cache) ==
    IF FLAG_ENABLED \notin opts.flags
    THEN [lines |-> ls, cache |-> cache]
    ELSE IF ls = <<>>
    THEN [lines |-> <<"panicked: index out of bounds">>, cache |-> cache]
    ELSE strip_when_enabled(ls, opts, cache)

\* strip_descriptive_metadata_lines: the lines and the regex cache it leaves
strip_descriptive_metadata_lines(ls, opts, cache) ==
    IF FLAG_ENABLED \notin opts.flags
    THEN [lines |-> ls, cache |-> cache]
    ELSE strip_when_enabled(ls, opts, cache)

---------------------------------------------------------------------------
(* Inputs *)

\* create_test_lines: line i starts at i * 1000 and holds texts[i] as its
\* main text; a text of NoText gives a line without a main track.
NoText == <<"NoText">>

create_test_lines(texts) ==
    [i \in 1..Len(texts) |->
        LyricLine((i - 1) * 1000,
                  IF texts[i] = NoText THEN None ELSE Some(texts[i]))]

RECURSIVE SeqsUpTo(_, _)
SeqsUpTo(S, n) ==
    IF n = 0
    THEN {<<>>}
    ELSE LET shorter == SeqsUpTo(S, n - 1)
         IN  shorter \cup {Append(q, x) : q \in shorter, x \in S}

ScanLimits == {Fixed(n) : n \in 0..MaxLimit} \cup {Fraction(2)}

\* Inputs of the scan-window cases: every sequence of up to MaxLines lines,
\* each a keyword line, a lyric line or a line without main text.
WindowTexts == {T_Artist_A, T_Lyric_1, NoText}

WindowOptions ==
    {[flags |-> {FLAG_ENABLED}, keywords |-> <<S_Artist>>, regex_patterns |-> <<>>,
      header_scan_limit |-> h, footer_scan_limit |-> f] :
        h \in ScanLimits, f \in ScanLimits}

\* Inputs of the text-matching cases: the inputs of the unit tests, and every
\* header text of HeaderTexts followed by a lyric line.
HeaderTexts ==
    {T_Artist_A, T_artist_A, T_ti_Title, T_time_Artist_A, T_NOTE_important,
     T_note_less_important, T_Producer_P, T_Lyrics_by_L, T_paren_Artist_A,
     T_paren_bg_Artist_A, T_bracket_paren_Artist_A, T_double_ti, T_open_ti,
     T_spaces_Artist_A, T_Lyric_2, T_Artists_X, T_Artist_no_colon,
     T_Artist_full_width, T_spaces_NOTE_x}

TestInputs ==
    {<<>>,
     <<T_Artist_Me, T_Lyric_line>>,
     <<T_Artist_A, T_Album_B, T_Lyric_1, T_Lyric_2>>,
     <<T_ti_Title, T_time_Artist_A, T_Lyric_1>>,
     <<T_NOTE_important, T_note_less_important, T_Lyric_1>>,
     <<T_Artist_A, T_Album_B, T_Source_Web>>}

TextInputs == TestInputs \cup {<<h, T_Lyric_1>> : h \in HeaderTexts}

KeywordLists == {<<>>, <<S_Artist>>, <<S_ti, S_Artist>>, <<S_Artist, S_Album, S_Source>>}

PatternLists == {<<>>, <<P_NOTE>>, <<P_Blank, P_Unclosed>>, <<P_Unclosed, P_NOTE>>}

TextScanLimits == {Fixed(0), Fixed(1), Fixed(MaxLimit)}

TextOptions ==
    {[flags |-> fl, keywords |-> k, regex_patterns |-> p,
      header_scan_limit |-> h, footer_scan_limit |-> f] :
        fl \in SUBSET MetadataStripperFlags, k \in KeywordLists, p \in PatternLists,
        h \in TextScanLimits, f \in TextScanLimits}

---------------------------------------------------------------------------
(* The state machine *)

\* The threads that call get_cached_regex on their own
Threads == {"t1", "t2"}

\* A thread outside get_cached_regex that has not called it yet
ThreadAtRest ==
    [pc |-> "idle", pattern |-> <<>>, case_sensitive |-> FALSE,
     new_regex |-> None, returned |-> FALSE, result |-> None]

\* Nobody is inside get_cached_regex and the Mutex is free
CacheIdle ==
    /\ cache_lock = None
    /\ threads = [t \in Threads |-> ThreadAtRest]

\* The main input panel with no text, no conversion running and nothing on
\* the clipboard
PanelIdle ==
    /\ input_text = <<>>
    /\ output_text = <<>>
    /\ conversion_in_progress = FALSE
    /\ clipboard = None

\* The application around the processors: no metadata, no lyrics loaded,
\* no frame drawn yet
AppIdle ==
    /\ ui_entries = <<>>
    /\ key_field = [focused |-> None, edited |-> FALSE, lost_focus |-> None]
    /\ actions_sent = <<>>
    /\ merge_source = None
    /\ parsed_lyric_data = None
    /\ action_queue = <<>>
    /\ PanelIdle

\* The syllable smoother has no line to work on
SmootherIdle ==
    /\ smoothed_line = None
    /\ smoothing = None
    /\ smoothing_input = None
    /\ iterations_done = 0

InitWith(texts, opts) ==
    /\ lines = create_test_lines(texts)
    /\ options = opts
    /\ input = lines
    /\ prev_lines = lines
    /\ calls = 0
    /\ regex_cache = <<>>
    /\ CacheIdle
    /\ SmootherIdle
    /\ AppIdle

Init == \E texts \in TextInputs, opts \in TextOptions : InitWith(texts, opts)

\* The header and footer example of the design description: keywords
\* 'Artist' and 'Album', under every pair of scan limits
ExampleTexts == <<T_Artist_A, T_Album_B, T_Lyric_1, T_Lyric_2>>

ExampleOptions ==
    {[opts EXCEPT !.keywords = <<S_Artist, S_Album>>] : opts \in WindowOptions}

InitWindow ==
    \/ \E texts \in SeqsUpTo(WindowTexts, MaxLines), opts \in WindowOptions :
           InitWith(texts, opts)
    \/ \E opts \in ExampleOptions : InitWith(ExampleTexts, opts)

\* One call strip_descriptive_metadata_lines(&mut lines, &options)
Strip ==
    /\ calls < MaxCalls
    /\ LET out == strip_descriptive_metadata_lines(lines, options, regex_cache)
       IN  /\ lines' = out.lines
           /\ regex_cache' = out.cache
    /\ prev_lines' = lines
    /\ calls' = calls + 1
    /\ UNCHANGED <<options, input>>
    /\ UNCHANGED outside_stripper

Next == Strip

Spec == Init /\ [][Next]_vars

SpecWindow == InitWindow /\ [][Next]_vars

---------------------------------------------------------------------------
(* get_cached_regex under concurrent callers.  Each thread goes through   *)
(* the function one step at a time: it takes the Mutex, looks the key up   *)
(* and lets the guard go, compiles without the Mutex, takes the Mutex      *)
(* again, inserts and lets the guard go.  A compiled Regex carries the     *)
(* thread that built it, which stands for the identity of the program a    *)
(* Regex handle and its clones share.                                      *)

\* The patterns the threads ask for
CachePatterns == {P_NOTE, P_Lyrics_by, P_Unclosed}

\* The options of a run in which the stripper itself is not called
NoOptions ==
    [flags |-> {}, keywords |-> <<>>, regex_patterns |-> <<>>,
     header_scan_limit |-> Fixed(0), footer_scan_limit |-> Fixed(0)]

InitCache ==
    /\ lines = <<>>
    /\ options = NoOptions
    /\ input = <<>>
    /\ prev_lines = <<>>
    /\ calls = 0
    /\ regex_cache = <<>>
    /\ CacheIdle
    /\ SmootherIdle
    /\ AppIdle

\* The key of the call thread t is in
thread_key(t) == cache_key(threads[t].pattern, threads[t].case_sensitive)

\* RegexBuilder::new(pattern).case_insensitive(!case_sensitive).build().ok()
\* run by thread t
compile_regex(t, pattern, case_sensitive) ==
    LET built == RegexBuilder_build(pattern, ~case_sensitive)
    IN  IF built.some
        THEN Some([pattern |-> built.val.pattern,
                   case_insensitive |-> built.val.case_insensitive,
                   built_by |-> t])
        ELSE None

\* The thread's record once get_cached_regex has returned result; new_regex
\* stays as the call left it, until the thread's next call
thread_returns(t, result) ==
    [threads[t] EXCEPT !.pc = "idle", !.returned = TRUE, !.result = result]

\* Thread t calls get_cached_regex(pattern, case_sensitive)
Call(t, pattern, case_sensitive) ==
    /\ threads[t].pc = "idle"
    /\ threads' = [threads EXCEPT ![t] =
                      [pc |-> "lock_lookup", pattern |-> pattern,
                       case_sensitive |-> case_sensitive, new_regex |-> None,
                       returned |-> FALSE, result |-> None]]
    /\ UNCHANGED <<outside_cache, regex_cache, cache_lock>>

\* let cache = get_regex_cache().lock().unwrap() of the lookup block
LockForLookup(t) ==
    /\ threads[t].pc = "lock_lookup"
    /\ cache_lock = None
    /\ cache_lock' = Some(t)
    /\ threads' = [threads EXCEPT ![t].pc = "lookup"]
    /\ UNCHANGED <<outside_cache, regex_cache>>

\* A mutant of Lookup: the guard taken for the lookup lives on after a miss.
Lookup_keeping_guard(t) ==
    /\ threads[t].pc = "lookup"
    /\ LET hit == cache_get(regex_cache, thread_key(t))
       IN  IF hit.some
           THEN /\ threads' = [threads EXCEPT ![t] = thread_returns(t, Some(hit.val))]
                /\ cache_lock' = None
           ELSE /\ threads' = [threads EXCEPT ![t].pc = "compile"]
                /\ cache_lock' = cache_lock
    /\ UNCHANGED <<outside_cache, regex_cache>>

\* if let Some(regex) = cache.get(&key) { return Some(regex.clone()); } and
\* the end of the block, where the guard is dropped
Lookup(t) ==
    /\ threads[t].pc = "lookup"
    /\ LET hit == cache_get(regex_cache, thread_key(t))
       IN  threads' = [threads EXCEPT ![t] =
                          IF hit.some
                          THEN thread_returns(t, Some(hit.val))
                          ELSE [threads[t] EXCEPT !.pc = "compile"]]
    /\ cache_lock' = None
    /\ UNCHANGED <<outside_cache, regex_cache>>

\* let new_regex = RegexBuilder::new(pattern)...build().ok()?, without the
\* Mutex: a pattern that does not compile makes the call return None
Compile(t) ==
    /\ threads[t].pc = "compile"
    /\ LET built == compile_regex(t, threads[t].pattern, threads[t].case_sensitive)
       IN  threads' = [threads EXCEPT ![t] =
                          IF built.some
                          THEN [threads[t] EXCEPT !.pc = "lock_insert",
                                                  !.new_regex = built]
                          ELSE thread_returns(t, None)]
    /\ UNCHANGED <<outside_cache, regex_cache, cache_lock>>

\* let mut cache = get_regex_cache().lock().unwrap() before the insert
LockForInsert(t) ==
    /\ threads[t].pc = "lock_insert"
    /\ cache_lock = None
    /\ cache_lock' = Some(t)
    /\ threads' = [threads EXCEPT ![t].pc = "insert"]
    /\ UNCHANGED <<outside_cache, regex_cache>>

\* A mutant of Insert: cache.insert(key, new_regex.clone()) and the return of
\* new_regex, so that a later insert replaces the entry of an earlier one.
Insert_overwriting(t) ==
    /\ threads[t].pc = "insert"
    /\ regex_cache' = (thread_key(t) :> threads[t].new_regex.val) @@ regex_cache
    /\ threads' = [threads EXCEPT ![t] = thread_returns(t, threads[t].new_regex)]
    /\ cache_lock' = None
    /\ UNCHANGED outside_cache

\* Some(cache.entry(key).or_insert(new_regex).clone()) and the return, where
\* the guard is dropped
Insert(t) ==
    /\ threads[t].pc = "insert"
    /\ LET after == cache_or_insert(regex_cache, thread_key(t), threads[t].new_regex.val)
       IN  /\ regex_cache' = after
           /\ threads' = [threads EXCEPT ![t] =
                             thread_returns(t, Some(after[thread_key(t)]))]
    /\ cache_lock' = None
    /\ UNCHANGED outside_cache

NextCache ==
    \E t \in Threads :
        \/ \E pattern \in CachePatterns, case_sensitive \in BOOLEAN :
               Call(t, pattern, case_sensitive)
        \/ LockForLookup(t)
        \/ Lookup(t)
        \/ Compile(t)
        \/ LockForInsert(t)
        \/ Insert(t)

SpecCache == InitCache /\ [][NextCache]_vars

---------------------------------------------------------------------------
(* Notions the properties are stated with *)

\* lines_to_texts of the unit tests
lines_to_texts(ls) == [i \in 1..Len(ls) |-> get_text(ls[i])]

Elements(ls) == {ls[i] : i \in 1..Len(ls)}

Enabled == FLAG_ENABLED \in options.flags

\* The scan limits the most recent call computed, from the line count it saw
HeaderLimit == calculate(options.header_scan_limit, Len(prev_lines))
FooterLimit == calculate(options.footer_scan_limit, Len(prev_lines))

\* The rules a call builds from the options
RulesInEffect == StrippingRules_new(options_to_use(options), <<>>).rules

\* Line i (0-based) of the lines the most recent call saw matches a rule
PrevLineMatches(i) == line_matches_rules(get_text(prev_lines[i + 1]), RulesInEffect)

---------------------------------------------------------------------------
(* C1: with the ENABLED flag unset, a call leaves the line sequence exactly *)
(* as it was, whatever the keywords, patterns, other flags and scan limits. *)
C1_DisabledLeavesLines ==
    (~Enabled) => (lines = input /\ lines = prev_lines)

\* A disabled call was made on lines whose first line a keyword rule matches.
C1_Witness ==
    /\ calls >= 1
    /\ ~Enabled
    /\ options.keywords = <<S_Artist>>
    /\ lines_to_texts(input) = <<T_Artist_A, T_Lyric_1>>
    /\ ENABLE_REGEX_STRIPPING \in options.flags
    /\ lines = input

(* C2: a call never removes an interior line: every line the call saw at an *)
(* index i with H <= i < n - F, H and F being the header and footer scan    *)
(* limits, is in the output, also when the line matches a rule.             *)
C2_InteriorLinesKept ==
    (calls >= 1) =>
        \A i \in 0..(Len(prev_lines) - 1) :
            (HeaderLimit <= i /\ i + FooterLimit < Len(prev_lines))
                => prev_lines[i + 1] \in Elements(lines)

\* A call removed a line and kept an interior line that matches a rule.
C2_Witness ==
    /\ calls = 1
    /\ Len(lines) < Len(input)
    /\ \E i \in 0..(Len(input) - 1) :
           /\ HeaderLimit <= i
           /\ i + FooterLimit < Len(input)
           /\ PrevLineMatches(i)
           /\ input[i + 1] \in Elements(lines)

(* C3 as claimed: applying the stripper twice with the same options gives   *)
(* the same lines as applying it once, for every input and options.         *)
C3_Idempotent ==
    (calls = 2) => (lines = prev_lines)

\* The scan limits the first call computed
FirstHeaderLimit == calculate(options.header_scan_limit, Len(input))
FirstFooterLimit == calculate(options.footer_scan_limit, Len(input))

(* C3 as amended: a second application changes nothing when the header and  *)
(* footer scan limits H and F of the first application together covered its *)
(* n lines (H + F >= n).                                                    *)
C3_IdempotentWhenScansCover ==
    (calls = 2 /\ FirstHeaderLimit + FirstFooterLimit >= Len(input))
        => (lines = prev_lines)

\* Two calls, the first with scan limits each smaller than the line count but
\* covering it together, which removed some but not all of the lines.
C3_Witness ==
    /\ calls = 2
    /\ FirstHeaderLimit < Len(input)
    /\ FirstFooterLimit < Len(input)
    /\ FirstHeaderLimit + FirstFooterLimit >= Len(input)
    /\ Len(prev_lines) < Len(input)
    /\ prev_lines # <<>>
    /\ lines = prev_lines

\* Every line the most recent call saw matches a rule.
AllPrevLinesMatch ==
    \A i \in 0..(Len(prev_lines) - 1) : PrevLineMatches(i)

(* C4 as claimed: enabled and with a rule, if every line of the input       *)
(* matches a rule, the output is empty, whatever the scan limits.           *)
C4_AllMetadataGivesEmpty ==
    (calls = 1 /\ Enabled /\ has_rules(RulesInEffect) /\ AllPrevLinesMatch)
        => (lines = <<>>)

(* C4 as amended: if every one of the n lines matches a rule, the output is *)
(* empty when the header and footer scan limits H and F together cover the  *)
(* lines (H + F >= n), and is the interior lines H .. n - F - 1 otherwise.  *)
C4_AllMetadataGivesEmptyWhenScansCover ==
    (calls = 1 /\ Enabled /\ has_rules(RulesInEffect) /\ AllPrevLinesMatch)
        => IF HeaderLimit + FooterLimit >= Len(input)
           THEN lines = <<>>
           ELSE lines = SubSeq(input, HeaderLimit + 1, Len(input) - FooterLimit)

\* A call on three or more lines that all match a rule, with scan limits that
\* cover them only together, emptied the lines.
C4_Witness ==
    /\ calls = 1
    /\ Enabled
    /\ Len(input) >= 3
    /\ AllPrevLinesMatch
    /\ HeaderLimit < Len(input)
    /\ FooterLimit < Len(input)
    /\ HeaderLimit + FooterLimit >= Len(input)
    /\ lines = <<>>

\* The caller gave neither keywords nor patterns.
NoCallerRules == options.keywords = <<>> /\ options.regex_patterns = <<>>

\* The rules built from the default lists under the caller's flags
DefaultRules ==
    StrippingRules_new([options EXCEPT !.keywords = default_rules_keywords,
                                       !.regex_patterns = default_rules_regex_patterns],
                       <<>>).rules

(* C5: enabled and with neither keywords nor patterns from the caller, the  *)
(* default keyword and regex lists are the rules: a first line that matches *)
(* a default rule is removed when the header scan reaches it.               *)
C5_DefaultRulesUsed ==
    (calls = 1 /\ Enabled /\ NoCallerRules /\ input # <<>> /\ HeaderLimit >= 1
        /\ line_matches_rules(get_text(input[1]), DefaultRules))
        => (input[1] \notin Elements(lines) /\ Len(lines) < Len(input))

\* 'Producer: P', 'Lyric 1' with no caller rules became 'Lyric 1'.
C5_Witness ==
    /\ calls = 1
    /\ Enabled
    /\ NoCallerRules
    /\ lines_to_texts(input) = <<T_Producer_P, T_Lyric_1>>
    /\ lines_to_texts(lines) = <<T_Lyric_1>>

NoRegexInEffect == RulesInEffect.compiled_regexes = <<>>

(* C7: keyword matching folds case by default, so keyword 'Artist' strips   *)
(* the header 'artist: A'; with KEYWORD_CASE_SENSITIVE the same input is    *)
(* left unchanged, while the header 'Artist: A' is stripped in both modes.  *)
C7_KeywordCase ==
    (calls = 1 /\ Enabled /\ options.keywords = <<S_Artist>> /\ NoRegexInEffect
        /\ HeaderLimit >= 1)
        => /\ (lines_to_texts(input) = <<T_artist_A, T_Lyric_1>>)
                => IF KEYWORD_CASE_SENSITIVE \in options.flags
                   THEN lines = input
                   ELSE lines_to_texts(lines) = <<T_Lyric_1>>
           /\ (lines_to_texts(input) = <<T_Artist_A, T_Lyric_1>>)
                => lines_to_texts(lines) = <<T_Lyric_1>>

\* 'artist: A', 'Lyric 1' was stripped to 'Lyric 1' by keyword 'Artist'.
C7_Witness ==
    /\ calls = 1
    /\ Enabled
    /\ options.keywords = <<S_Artist>>
    /\ KEYWORD_CASE_SENSITIVE \notin options.flags
    /\ lines_to_texts(input) = <<T_artist_A, T_Lyric_1>>
    /\ lines_to_texts(lines) = <<T_Lyric_1>>

(* C8: regex rules apply only with ENABLE_REGEX_STRIPPING, exact in case    *)
(* with REGEX_CASE_SENSITIVE and folding case otherwise: for pattern        *)
(* '^NOTE:' and input 'NOTE: important', 'note: less important', 'Lyric 1', *)
(* the case-sensitive run removes the first line only.                      *)
C8_RegexFlags ==
    /\ (ENABLE_REGEX_STRIPPING \notin options.flags) => NoRegexInEffect
    /\ (calls = 1 /\ Enabled /\ options.keywords = <<>>
            /\ options.regex_patterns = <<P_NOTE>>
            /\ lines_to_texts(input)
                   = <<T_NOTE_important, T_note_less_important, T_Lyric_1>>)
        => IF ENABLE_REGEX_STRIPPING \notin options.flags
           THEN lines = input
           ELSE IF REGEX_CASE_SENSITIVE \in options.flags
           THEN (HeaderLimit >= 1)
                    => lines_to_texts(lines) = <<T_note_less_important, T_Lyric_1>>
           ELSE (HeaderLimit >= 2) => lines_to_texts(lines) = <<T_Lyric_1>>

\* The case-sensitive run of the unit test removed 'NOTE: important' only.
C8_Witness ==
    /\ calls = 1
    /\ Enabled
    /\ {ENABLE_REGEX_STRIPPING, REGEX_CASE_SENSITIVE} \subseteq options.flags
    /\ options.regex_patterns = <<P_NOTE>>
    /\ lines_to_texts(input) = <<T_NOTE_important, T_note_less_important, T_Lyric_1>>
    /\ lines_to_texts(lines) = <<T_note_less_important, T_Lyric_1>>

\* The text the claim says the keyword check is made on: one step from the
\* trimmed text.
C9_Normalized(line_text) ==
    LET t == trim(line_text)
        closer == IF starts_with_char(t, "[") THEN "]" ELSE ")"
        wrapped == \/ starts_with_char(t, "[") /\ ends_with_char(t, "]")
                   \/ starts_with_char(t, "(") /\ ends_with_char(t, ")")
        opened == starts_with_char(t, "[") \/ starts_with_char(t, "(")
        closed_at == {i \in 1..Len(t) : t[i] = closer}
    IN  IF wrapped
        THEN SubSeq(t, 2, Len(t) - 1)
        ELSE IF opened /\ closed_at # {}
        THEN trim_start(SubSeq(t, (CHOOSE i \in closed_at :
                                      \A j \in closed_at : i <= j) + 1, Len(t)))
        ELSE t

\* The headers keywords 'ti' and 'Artist' match after one step, and those
\* they do not match.
C9_MatchedHeaders ==
    {T_ti_Title, T_time_Artist_A, T_paren_Artist_A, T_paren_bg_Artist_A,
     T_bracket_paren_Artist_A, T_spaces_Artist_A, T_Artist_A}
C9_UnmatchedHeaders == {T_double_ti, T_open_ti, T_Lyric_2}

(* C9: the keyword check is made on the trimmed text normalized by exactly  *)
(* one step (the inner text of a line wrapped in [...] or (...), the text   *)
(* after the first closing bracket or paren of a line that opens with one   *)
(* and does not end with it), so '[ti:Title]' matches keyword 'ti' and      *)
(* '[00:01.00] Artist : A' matches 'Artist'.                                *)
C9_OneStepNormalization ==
    /\ \A i \in 1..Len(input) :
           text_for_keyword_check(get_text(input[i])) = C9_Normalized(get_text(input[i]))
    /\ (calls = 1 /\ Enabled /\ options.keywords = <<S_ti, S_Artist>>
            /\ NoRegexInEffect /\ HeaderLimit >= 2)
        => /\ (lines_to_texts(input) = <<T_ti_Title, T_time_Artist_A, T_Lyric_1>>)
                => lines_to_texts(lines) = <<T_Lyric_1>>
           /\ \A h \in C9_MatchedHeaders :
                  (lines_to_texts(input) = <<h, T_Lyric_1>>)
                      => lines_to_texts(lines) = <<T_Lyric_1>>
           /\ \A h \in C9_UnmatchedHeaders :
                  (lines_to_texts(input) = <<h, T_Lyric_1>>) => lines = input

\* The unit test: '[ti:Title]', '[00:01.00] Artist : A', 'Lyric 1' became
\* 'Lyric 1'.
C9_Witness ==
    /\ calls = 1
    /\ Enabled
    /\ options.keywords = <<S_ti, S_Artist>>
    /\ lines_to_texts(input) = <<T_ti_Title, T_time_Artist_A, T_Lyric_1>>
    /\ lines_to_texts(lines) = <<T_Lyric_1>>

(* C10: an empty line sequence stays empty, for every options value.        *)
C10_EmptyStaysEmpty ==
    (input = <<>>) => (lines = <<>>)

\* An enabled call with a keyword rule was made on the empty sequence.
C10_Witness ==
    /\ calls >= 1
    /\ input = <<>>
    /\ Enabled
    /\ options.keywords = <<S_Artist>>
    /\ lines = <<>>

---------------------------------------------------------------------------
(* Notions the regex cache properties are stated with *)

\* The texts a matcher is probed with
ProbeTexts ==
    {T_NOTE_important, T_note_less_important, T_Lyrics_by_L, T_Lyric_1, <<>>}

\* The threads whose most recent get_cached_regex call has returned
Returned == {t \in Threads : threads[t].returned}

\* A matcher compiled afresh for the key, outside the cache
FreshRegex(pattern, case_sensitive) == RegexBuilder_build(pattern, ~case_sensitive)

\* The two matchers agree on every probe text
SameMatches(r1, r2) ==
    \A text \in ProbeTexts : Regex_is_match(r1, text) = Regex_is_match(r2, text)

(* C11: whatever calls came before, the matcher get_cached_regex returns    *)
(* for (pattern, case_sensitive) matches every text as a matcher compiled   *)
(* afresh from that pattern with case_insensitive = NOT case_sensitive, and *)
(* it returns a matcher exactly when the fresh compilation succeeds; the    *)
(* entries of (pattern, TRUE) and (pattern, FALSE) are each of their own    *)
(* case mode.                                                              *)
C11_CachedMatchesLikeFresh ==
    /\ \A t \in Returned :
           LET fresh == FreshRegex(threads[t].pattern, threads[t].case_sensitive)
           IN  /\ threads[t].result.some = fresh.some
               /\ fresh.some =>
                      /\ SameMatches(threads[t].result.val, fresh.val)
                      /\ threads[t].result.val.case_insensitive = ~threads[t].case_sensitive
    /\ \A key \in DOMAIN regex_cache :
           /\ FreshRegex(key[1], key[2]).some
           /\ SameMatches(regex_cache[key], FreshRegex(key[1], key[2]).val)

\* Thread t1 was returned the case-insensitive matcher of '^NOTE:' that
\* thread t2 had built, while the case-sensitive entry of the same pattern
\* was in the cache as well.
C11_Witness ==
    /\ threads["t1"].returned
    /\ threads["t1"].pattern = P_NOTE
    /\ ~threads["t1"].case_sensitive
    /\ threads["t1"].result.some
    /\ threads["t1"].result.val.built_by = "t2"
    /\ cache_key(P_NOTE, TRUE) \in DOMAIN regex_cache
    /\ cache_key(P_NOTE, FALSE) \in DOMAIN regex_cache

\* The caller's options with the pattern that does not compile taken out
C12_ValidPatternsOnly == [options EXCEPT !.regex_patterns = <<P_NOTE>>]

(* C12: a pattern that does not compile does not abort stripping.  With     *)
(* the patterns '(Live' (unbalanced) and '^NOTE:', get_cached_regex returns *)
(* no matcher for the first, the rules are those of the valid pattern and   *)
(* of the keywords, and the call completes with the result the valid        *)
(* pattern and the keywords alone give.                                     *)
C12_BadPatternSkipped ==
    (options.regex_patterns = <<P_Unclosed, P_NOTE>>)
        => /\ \A case_sensitive \in BOOLEAN :
                  ~get_cached_regex(regex_cache, P_Unclosed, case_sensitive).regex.some
           /\ \A key \in DOMAIN regex_cache : key[1] # P_Unclosed
           /\ RulesInEffect
                  = StrippingRules_new(options_to_use(C12_ValidPatternsOnly), <<>>).rules
           /\ (ENABLE_REGEX_STRIPPING \in options.flags)
                  => Len(RulesInEffect.compiled_regexes) = 1
           /\ (calls >= 1)
                  => lines = strip_descriptive_metadata_lines(
                                 prev_lines, C12_ValidPatternsOnly, <<>>).lines

\* A call with the patterns '(Live' and '^NOTE:' and the keyword 'Artist'
\* completed and removed 'NOTE: important' by the valid pattern.
C12_Witness ==
    /\ calls = 1
    /\ Enabled
    /\ {ENABLE_REGEX_STRIPPING, REGEX_CASE_SENSITIVE} \subseteq options.flags
    /\ options.regex_patterns = <<P_Unclosed, P_NOTE>>
    /\ options.keywords = <<S_Artist>>
    /\ lines_to_texts(input) = <<T_NOTE_important, T_note_less_important, T_Lyric_1>>
    /\ lines_to_texts(lines) = <<T_note_less_important, T_Lyric_1>>

(* C13: the cache only grows.  In every step each entry stays, with the     *)
(* matcher it had, and a key that appears is the key of a pattern that      *)
(* compiles, holding a matcher of that pattern and case mode.               *)
C13_CacheOnlyGrows ==
    [][/\ \A key \in DOMAIN regex_cache :
              /\ key \in DOMAIN regex_cache'
              /\ regex_cache'[key] = regex_cache[key]
       /\ \A key \in (DOMAIN regex_cache') \ (DOMAIN regex_cache) :
              /\ FreshRegex(key[1], key[2]).some
              /\ regex_cache'[key].pattern = key[1]
              /\ regex_cache'[key].case_insensitive = ~key[2]]_vars

\* Both threads compiled '^NOTE:' case-sensitively; t1 came to its insert
\* after t2 and was returned the matcher t2 had inserted, which is still the
\* entry.  A call for the pattern that does not compile has returned too.
C13_Witness ==
    /\ threads["t1"].returned
    /\ thread_key("t1") = cache_key(P_NOTE, TRUE)
    /\ threads["t1"].new_regex.some
    /\ threads["t1"].new_regex.val.built_by = "t1"
    /\ threads["t1"].result.val.built_by = "t2"
    /\ regex_cache[cache_key(P_NOTE, TRUE)].built_by = "t2"
    /\ threads["t2"].returned
    /\ threads["t2"].pattern = P_Unclosed
    /\ Cardinality(DOMAIN regex_cache) >= 2

\* The threads inside a step that reads or writes the map
InCache == {t \in Threads : threads[t].pc \in {"lookup", "insert"}}

(* C14: in every interleaving of get_cached_regex calls a thread holds the  *)
(* cache lock exactly while it is in its lookup step or in its insert step: *)
(* never while it waits, compiles or has returned; and at most one thread   *)
(* is in a lookup or insert step at a time.                                 *)
C14_LockOnlyAroundLookupAndInsert ==
    /\ \A t \in Threads : (cache_lock = Some(t)) <=> (t \in InCache)
    /\ cache_lock.some => cache_lock.val \in Threads
    /\ Cardinality(InCache) <= 1

\* Thread t2 holds the lock for its insert while thread t1 compiles, after
\* a lookup that missed, without the lock.
C14_Witness ==
    /\ cache_lock = Some("t2")
    /\ threads["t2"].pc = "insert"
    /\ threads["t1"].pc = "compile"

---------------------------------------------------------------------------
(* The syllable smoother.  Its code is in lyrics_helper_rs, apart from the *)
(* three modelled files; the settings panel fixes the options and the      *)
(* range of the factor, the iteration itself follows the design            *)
(* description: adjacent syllables of a track whose gap and whose          *)
(* difference of durations are within the thresholds have their facing     *)
(* boundaries moved toward the midpoint of the gap, each by factor * gap.   *)
(* The factor is held in hundredths.  The track of the line is one         *)
(* sequence of syllables; the syllables of a word are consecutive in it.    *)

LyricSyllable(start_time, end_time) ==
    [start_time |-> start_time, end_time |-> end_time]

\* The values the factor slider is given in the model: 0.0, 0.25, 0.5
SmoothingFactors == {0, 25, 50}

SyllableSmoothingOptions ==
    [factor : SmoothingFactors,
     smoothing_iterations : 1..MaxIterations,
     duration_threshold_ms : {0, MaxTime},
     gap_threshold_ms : {1, MaxTime}]

\* Syllable sequences a parser produces: start <= end, non-overlapping and
\* non-decreasing
Syllables ==
    UNION {{LyricSyllable(s, e) : e \in s..MaxTime} : s \in 0..MaxTime}

WellTimed(syls) ==
    /\ \A i \in 1..Len(syls) : syls[i].start_time <= syls[i].end_time
    /\ \A i \in 1..(Len(syls) - 1) : syls[i].end_time <= syls[i + 1].start_time

SmoothedLines ==
    {[start_time |-> syls[1].start_time,
      end_time |-> syls[Len(syls)].end_time,
      syllables |-> syls] :
        syls \in {q \in (SeqsUpTo(Syllables, MaxSyllables) \ {<<>>}) : WellTimed(q)}}

duration(syl) == syl.end_time - syl.start_time

Abs(x) == IF x < 0 THEN 0 - x ELSE x

\* A mutant of boundary_shift: each boundary is moved by the whole gap.
boundary_shift_whole_gap(gap, factor) == gap

\* The distance each of the two facing boundaries moves: factor * gap,
\* truncated to whole milliseconds
boundary_shift(gap, factor) == (gap * factor) \div 100

\* The pair (i, i + 1) of the track after its boundaries were nudged
smooth_pair(syls, i, opts) ==
    LET gap == syls[i + 1].start_time - syls[i].end_time
        shift == boundary_shift(gap, opts.factor)
    IN  IF /\ gap >= 0
           /\ gap <= opts.gap_threshold_ms
           /\ Abs(duration(syls[i]) - duration(syls[i + 1])) <= opts.duration_threshold_ms
        THEN [syls EXCEPT ![i].end_time = @ + shift, ![i + 1].start_time = @ - shift]
        ELSE syls

\* One walk over the adjacent pairs from pair i on
RECURSIVE smooth_from(_, _, _)
smooth_from(syls, i, opts) ==
    IF i >= Len(syls)
    THEN syls
    ELSE smooth_from(smooth_pair(syls, i, opts), i + 1, opts)

\* One smoothing iteration on a line: only the syllables are written
smooth_iteration(line, opts) ==
    [line EXCEPT !.syllables = smooth_from(line.syllables, 1, opts)]

InitSmoother ==
    /\ lines = <<>>
    /\ options = NoOptions
    /\ input = <<>>
    /\ prev_lines = <<>>
    /\ calls = 0
    /\ regex_cache = <<>>
    /\ CacheIdle
    /\ \E line \in SmoothedLines, opts \in SyllableSmoothingOptions :
           /\ smoothed_line = Some(line)
           /\ smoothing_input = Some(line)
           /\ smoothing = Some(opts)
    /\ iterations_done = 0
    /\ AppIdle

\* One of the smoothing_iterations iterations
SmoothIteration ==
    /\ smoothed_line.some
    /\ iterations_done < smoothing.val.smoothing_iterations
    /\ smoothed_line' = Some(smooth_iteration(smoothed_line.val, smoothing.val))
    /\ iterations_done' = iterations_done + 1
    /\ UNCHANGED <<smoothing, smoothing_input>>
    /\ UNCHANGED outside_smoother

NextSmoother == SmoothIteration

SpecSmoother == InitSmoother /\ [][NextSmoother]_vars

---------------------------------------------------------------------------
(* The metadata working set: keys, entries, the actions of the editor *)

\* CanonicalMetadataKey: the well-known keys and Custom(String)
KeyVariants == {"Title", "Artist", "Album"}

Canonical(variant) == [variant |-> variant, custom |-> <<>>]

Custom(custom_key_str) == [variant |-> "Custom", custom |-> custom_key_str]

S_custom == <<"c", "u", "s", "t", "o", "m">>

V_A == <<"A">>

V_B == <<"B">>

MetadataValues == {V_A, V_B}

\* An entry of ui_entries
Entry(key, value, is_pinned) ==
    [key |-> key, value |-> value, is_pinned |-> is_pinned]

\* LyricsAction, the variants the editor and the toolbar send
AddMetadata(key) == [action |-> "AddMetadata", key |-> key]
DeleteMetadata(index) == [action |-> "DeleteMetadata", index |-> index]
UpdateMetadataKey(index, key) ==
    [action |-> "UpdateMetadataKey", index |-> index, key |-> key]
UpdateMetadataValue(index, value) ==
    [action |-> "UpdateMetadataValue", index |-> index, value |-> value]
ToggleMetadataPinned(index) == [action |-> "ToggleMetadataPinned", index |-> index]
ApplyProcessor(processor) == [action |-> "ApplyProcessor", processor |-> processor]

---------------------------------------------------------------------------
(* Merging newly parsed metadata into the working set.  The merge is code  *)
(* of the metadata manager, apart from the three modelled files; it        *)
(* follows the design description: pinned entries stay as they are, the    *)
(* other entries give way to those of the new source, and the new source's  *)
(* values for a key that a pinned entry holds are not taken.                *)

\* Metadata the parser of a newly loaded source yields: (key, value) pairs
ParsedPairs ==
    {[key |-> Canonical(k), value |-> v] : k \in {"Title", "Artist"}, v \in MetadataValues}

ParsedMetadata == SeqsUpTo(ParsedPairs, 2)

\* Working sets before any pin was set
InitialEntries ==
    {<<>>,
     <<Entry(Canonical("Artist"), V_A, FALSE)>>,
     <<Entry(Canonical("Title"), V_A, FALSE), Entry(Canonical("Artist"), V_A, FALSE)>>,
     <<Entry(Canonical("Artist"), V_A, FALSE), Entry(Canonical("Artist"), V_B, FALSE)>>}

pinned_keys(entries) ==
    {entries[i].key : i \in {j \in 1..Len(entries) : entries[j].is_pinned}}

is_pinned_entry(entry) == entry.is_pinned

\* A mutant of merge_parsed: the new source replaces the whole working set.
merge_parsed_replacing_pinned(entries, parsed) ==
    [i \in 1..Len(parsed) |-> Entry(parsed[i].key, parsed[i].value, FALSE)]

\* The working set after the merge
merge_parsed(entries, parsed) ==
    LET kept == SelectSeq(entries, is_pinned_entry)
        taken(pair) == pair.key \notin pinned_keys(entries)
        fresh == SelectSeq(parsed, taken)
    IN  kept \o [i \in 1..Len(fresh) |-> Entry(fresh[i].key, fresh[i].value, FALSE)]

InitMetadata ==
    /\ lines = <<>>
    /\ options = NoOptions
    /\ input = <<>>
    /\ prev_lines = <<>>
    /\ calls = 0
    /\ regex_cache = <<>>
    /\ CacheIdle
    /\ SmootherIdle
    /\ ui_entries \in InitialEntries
    /\ key_field = [focused |-> None, edited |-> FALSE, lost_focus |-> None]
    /\ actions_sent = <<>>
    /\ merge_source = None
    /\ parsed_lyric_data = None
    /\ action_queue = <<>>
    /\ PanelIdle

\* A frame of the metadata editor in which the pin checkbox of the entry at
\* index (0-based) was clicked
PinCheckbox(index) ==
    /\ index < Len(ui_entries)
    /\ ui_entries' = [ui_entries EXCEPT ![index + 1].is_pinned = ~@]
    /\ actions_sent' = <<ToggleMetadataPinned(index)>>
    /\ merge_source' = None
    /\ UNCHANGED <<key_field, processor_vars>>
    /\ UNCHANGED panel_vars
    /\ UNCHANGED outside_app

\* A new source was loaded and its metadata merged into the working set
MergeParsed(parsed) ==
    /\ Len(merge_parsed(ui_entries, parsed)) <= MaxEntries
    /\ ui_entries' = merge_parsed(ui_entries, parsed)
    /\ merge_source' = Some([entries |-> ui_entries, parsed |-> parsed])
    /\ actions_sent' = <<>>
    /\ UNCHANGED <<key_field, processor_vars>>
    /\ UNCHANGED panel_vars
    /\ UNCHANGED outside_app

NextMetadata ==
    \/ \E index \in 0..(MaxEntries - 1) : PinCheckbox(index)
    \/ \E parsed \in ParsedMetadata : MergeParsed(parsed)

SpecMetadata == InitMetadata /\ [][NextMetadata]_vars

\* The multiset of the entries of a working set that satisfy a test
CountEntries(entries, Test(_)) == Cardinality({i \in 1..Len(entries) : Test(entries[i])})

(* C16: when newly parsed metadata is merged into the working set, every    *)
(* pinned entry keeps its key and value, also when the new source has       *)
(* another value for that key, and stays pinned; the unpinned entries are   *)
(* gone, and every unpinned entry of the result comes from the new source.  *)
C16_PinnedSurviveMerge ==
    merge_source.some =>
        LET before == merge_source.val.entries
            parsed == merge_source.val.parsed
        IN  /\ \A i \in 1..Len(before) :
                   before[i].is_pinned =>
                       LET Same(e) == e = before[i]
                       IN  CountEntries(ui_entries, Same) = CountEntries(before, Same)
            /\ \A j \in 1..Len(ui_entries) :
                   IF ui_entries[j].is_pinned
                   THEN \E i \in 1..Len(before) : before[i] = ui_entries[j]
                   ELSE /\ \E p \in 1..Len(parsed) :
                               /\ parsed[p].key = ui_entries[j].key
                               /\ parsed[p].value = ui_entries[j].value
                        /\ ui_entries[j].key \notin pinned_keys(before)

\* A merge in which the pinned 'Artist' entry of value A met a new source
\* with the value B for 'Artist', and an unpinned 'Title' entry was removed.
C16_Witness ==
    /\ merge_source.some
    /\ merge_source.val.entries
           = <<Entry(Canonical("Title"), V_A, FALSE), Entry(Canonical("Artist"), V_A, TRUE)>>
    /\ merge_source.val.parsed = <<[key |-> Canonical("Artist"), value |-> V_B]>>
    /\ ui_entries = <<Entry(Canonical("Artist"), V_A, TRUE)>>

---------------------------------------------------------------------------
(* The metadata editor: one frame of                                       *)
(* draw_metadata_editor_window_contents.  What the user did since the last  *)
(* frame reaches the code as the responses of the widgets; a frame's input  *)
(* is the set of those events.  A text field reports changed() in the frame *)
(* its text was edited and lost_focus() in the frame it gave up the         *)
(* keyboard focus; key_field holds which custom key field has the focus and *)
(* whether its text was edited since it got it.                             *)

\* CanonicalMetadataKey::from_str, which is code of lyrics_helper_core: the
\* name of a well-known key, in any case, gives that key; anything else is
\* an error.
CanonicalMetadataKey_from_str(s) ==
    IF to_lowercase(s) = to_lowercase(S_Artist) THEN Some(Canonical("Artist"))
    ELSE IF to_lowercase(s) = to_lowercase(S_Album) THEN Some(Canonical("Album"))
    ELSE None

\* The events of a frame
PinClicked(index) == [kind |-> "pin", index |-> index]
KeyTyped(index, text) == [kind |-> "key_typed", index |-> index, text |-> text]
KeyLostFocus(index) == [kind |-> "key_lost_focus", index |-> index]
KeySelected(index, key) == [kind |-> "key_selected", index |-> index, key |-> key]
ValueLostFocus(index) == [kind |-> "value_lost_focus", index |-> index]
DeleteClicked(index) == [kind |-> "delete", index |-> index]
AddClicked(key) == [kind |-> "add", key |-> key]

\* The texts typed into a custom key field
TypedKeys == {S_Artist, S_Source}

\* The keys picked in the combo box and in the add menu
PickedKeys == {Canonical("Artist"), Custom(S_custom)}

EditorIndices == 0..1

EditorEvents ==
    {PinClicked(i) : i \in EditorIndices}
        \cup {KeyTyped(i, t) : i \in EditorIndices, t \in TypedKeys}
        \cup {KeyLostFocus(i) : i \in EditorIndices}
        \cup {KeySelected(i, k) : i \in EditorIndices, k \in PickedKeys}
        \cup {ValueLostFocus(i) : i \in EditorIndices}
        \cup {DeleteClicked(i) : i \in EditorIndices}
        \cup {AddClicked(k) : k \in PickedKeys}

\* The working sets the editor is opened on
EditorEntries ==
    {<<>>,
     <<Entry(Custom(S_custom), V_A, FALSE)>>,
     <<Entry(Custom(S_custom), V_A, FALSE), Entry(Canonical("Artist"), V_B, FALSE)>>,
     <<Entry(Canonical("Artist"), V_A, FALSE), Entry(Canonical("Artist"), V_B, TRUE)>>}

\* The row of the entry at index (0-based), drawn on the state the rows
\* before it left: the entries and the actions pushed so far, the deletion
\* index, and the text field memory
draw_row(st, index, events) ==
    LET entry == st.entries[index + 1]
        is_first_in_group ==
            \/ index = 0
            \/ st.entries[index].key # entry.key
        pinned == IF PinClicked(index) \in events
                  THEN [entry EXCEPT !.is_pinned = ~@]
                  ELSE entry
        after_pin == IF PinClicked(index) \in events
                     THEN Append(st.actions, ToggleMetadataPinned(index))
                     ELSE st.actions
        is_custom == entry.key.variant = "Custom"
        typed == {e \in events : e.kind = "key_typed" /\ e.index = index}
        changed == is_first_in_group /\ is_custom /\ typed # {}
        text == IF changed THEN (CHOOSE e \in typed : TRUE).text ELSE entry.key.custom
        had_focus == st.field.focused = Some(index)
        lost_focus == /\ is_first_in_group /\ is_custom
                      /\ KeyLostFocus(index) \in events
                      /\ had_focus \/ changed
        parsed_key == CanonicalMetadataKey_from_str(text)
        selected == {e \in events : e.kind = "key_selected" /\ e.index = index
                                        /\ e.key # entry.key}
        picked == is_first_in_group /\ ~is_custom /\ selected # {}
        key == IF is_first_in_group /\ is_custom
               THEN IF lost_focus /\ changed /\ parsed_key.some
                    THEN parsed_key.val
                    ELSE Custom(text)
               ELSE IF picked
               THEN (CHOOSE e \in selected : TRUE).key
               ELSE entry.key
        key_changed_this_frame ==
            \/ is_first_in_group /\ is_custom /\ lost_focus /\ changed
            \/ picked
        after_key == IF key_changed_this_frame
                     THEN Append(after_pin, UpdateMetadataKey(index, key))
                     ELSE after_pin
        after_value == IF ValueLostFocus(index) \in events
                       THEN Append(after_key, UpdateMetadataValue(index, entry.value))
                       ELSE after_key
        field == IF had_focus /\ ~(is_first_in_group /\ is_custom)
                 THEN [focused |-> None,
                       edited |-> FALSE,
                       lost_focus |-> st.field.lost_focus]
                 ELSE IF lost_focus
                 THEN [focused |-> None,
                       edited |-> changed \/ (had_focus /\ st.field.edited),
                       lost_focus |-> Some(index)]
                 ELSE IF changed
                 THEN [focused |-> Some(index),
                       edited |-> TRUE,
                       lost_focus |-> st.field.lost_focus]
                 ELSE st.field
    IN  [entries |-> [st.entries EXCEPT ![index + 1] =
                         [pinned EXCEPT !.key = key]],
         actions |-> after_value,
         deletion_index |-> IF DeleteClicked(index) \in events
                            THEN Some(index)
                            ELSE st.deletion_index,
         field |-> field]

\* The loop over ui_entries.iter_mut().enumerate(), from row index on
RECURSIVE draw_rows(_, _, _)
draw_rows(st, index, events) ==
    IF index >= Len(st.entries)
    THEN st
    ELSE draw_rows(draw_row(st, index, events), index + 1, events)

\* The actions of the add menu, in the order of its buttons
RECURSIVE add_menu_actions(_, _)
add_menu_actions(keys, events) ==
    IF keys = <<>>
    THEN <<>>
    ELSE (IF AddClicked(Head(keys)) \in events
          THEN <<AddMetadata(Head(keys))>>
          ELSE <<>>) \o add_menu_actions(Tail(keys), events)

\* A mutant of draw_metadata_editor_window_contents: the DeleteMetadata
\* action is sent ahead of the actions of the rows.
draw_metadata_editor_delete_first(entries, field, events) ==
    IF entries = <<>>
    THEN [entries |-> entries,
          field |-> [field EXCEPT !.lost_focus = None],
          actions |-> <<>>]
    ELSE LET st == draw_rows([entries |-> entries, actions |-> <<>>,
                              deletion_index |-> None,
                              field |-> [field EXCEPT !.lost_focus = None]],
                             0, events)
             with_delete == IF st.deletion_index.some
                            THEN <<DeleteMetadata(st.deletion_index.val)>> \o st.actions
                            ELSE st.actions
         IN  [entries |-> st.entries,
              field |-> st.field,
              actions |-> with_delete
                  \o add_menu_actions(<<Canonical("Artist"), Custom(S_custom)>>, events)]

\* draw_metadata_editor_window_contents: the entries, the text field memory
\* and the actions sent
draw_metadata_editor_window_contents(entries, field, events) ==
    IF entries = <<>>
    THEN [entries |-> entries,
          field |-> [field EXCEPT !.lost_focus = None],
          actions |-> <<>>]
    ELSE LET st == draw_rows([entries |-> entries, actions |-> <<>>,
                              deletion_index |-> None,
                              field |-> [field EXCEPT !.lost_focus = None]],
                             0, events)
             after_delete == IF st.deletion_index.some
                             THEN Append(st.actions, DeleteMetadata(st.deletion_index.val))
                             ELSE st.actions
         IN  [entries |-> st.entries,
              field |-> st.field,
              actions |-> after_delete
                  \o add_menu_actions(<<Canonical("Artist"), Custom(S_custom)>>, events)]

\* The event sets of a frame: at most two events, one text typed at most
FrameEvents ==
    {{}} \cup {{e} : e \in EditorEvents}
         \cup {{e1, e2} : e1 \in EditorEvents, e2 \in EditorEvents}

\* Text is typed into one field at most, and not while another field has
\* the keyboard focus
OneTextTyped(events) ==
    /\ Cardinality({e \in events : e.kind = "key_typed"}) <= 1
    /\ \A e \in events :
           (e.kind = "key_typed")
               => (key_field.focused = None \/ key_field.focused = Some(e.index))

InitEditor ==
    /\ lines = <<>>
    /\ options = NoOptions
    /\ input = <<>>
    /\ prev_lines = <<>>
    /\ calls = 0
    /\ regex_cache = <<>>
    /\ CacheIdle
    /\ SmootherIdle
    /\ ui_entries \in EditorEntries
    /\ key_field = [focused |-> None, edited |-> FALSE, lost_focus |-> None]
    /\ actions_sent = <<>>
    /\ merge_source = None
    /\ parsed_lyric_data = None
    /\ action_queue = <<>>
    /\ PanelIdle

\* One frame of the metadata editor
DrawMetadataEditor(events) ==
    /\ OneTextTyped(events)
    /\ LET out == draw_metadata_editor_window_contents(ui_entries, key_field, events)
       IN  /\ ui_entries' = out.entries
           /\ key_field' = out.field
           /\ actions_sent' = out.actions
    /\ UNCHANGED <<merge_source, processor_vars>>
    /\ UNCHANGED panel_vars
    /\ UNCHANGED outside_app

NextEditor == \E events \in FrameEvents : DrawMetadataEditor(events)

SpecEditor == InitEditor /\ [][NextEditor]_vars

\* The UpdateMetadataKey actions the most recent frame sent for an index
KeyActionsFor(index) ==
    {n \in 1..Len(actions_sent) :
         /\ actions_sent[n].action = "UpdateMetadataKey"
         /\ actions_sent[n].index = index}

(* C17: when the custom key text field of an entry loses the focus after   *)
(* its text was edited, the entry's key is the canonical key the text       *)
(* parses as, or else Custom of exactly the text, and the frame sends one   *)
(* UpdateMetadataKey action for the entry's index, carrying that key.       *)
C17_KeyCommittedOnFocusLoss ==
    \A index \in EditorIndices :
        (key_field.lost_focus = Some(index) /\ key_field.edited)
            => LET key == ui_entries[index + 1].key
               IN  /\ (key.variant = "Custom")
                          => ~CanonicalMetadataKey_from_str(key.custom).some
                   /\ Cardinality(KeyActionsFor(index)) = 1
                   /\ \A n \in KeyActionsFor(index) : actions_sent[n].key = key

---------------------------------------------------------------------------
(* The post-processing menu of the toolbar and the processors run on the   *)
(* loaded lyric document.  The handlers of the actions are code apart from *)
(* the three modelled files: a conversion parses a new document and runs    *)
(* the selected processors in the pipeline order, as the design description *)
(* says; ApplyProcessor runs the processor it names on the loaded document. *)
(* A document is held as the sequence of processors that have run on it,    *)
(* with the part of it that the conversion ran and the requests made for    *)
(* it from the menu.                                                        *)

\* enum ProcessorType, in the order of its declaration, which is the order
\* of the pipeline and of the menu's buttons
ProcessorTypes == <<"MetadataStripper", "SyllableSmoother", "AgentRecognizer">>

ProcessorSet == {ProcessorTypes[i] : i \in 1..Len(ProcessorTypes)}

pipeline_position(processor) ==
    CHOOSE i \in 1..Len(ProcessorTypes) : ProcessorTypes[i] = processor

InPipelineOrder(processors) ==
    \A i, j \in 1..Len(processors) :
        (i < j) => pipeline_position(processors[i]) <= pipeline_position(processors[j])

\* The chosen processors in the order of ProcessorTypes
in_declared_order(chosen) ==
    LET is_chosen(p) == p \in chosen
    IN  SelectSeq(ProcessorTypes, is_chosen)

\* A mutant of post_process_menu: the buttons are laid out, and answer, in
\* the opposite order.
post_process_menu_reversed(lyrics_loaded, clicked) ==
    LET picked == in_declared_order(clicked)
    IN  IF lyrics_loaded
        THEN [i \in 1..Len(picked) |-> ApplyProcessor(picked[Len(picked) + 1 - i])]
        ELSE <<>>

\* A mutant of post_process_menu: the buttons are added with ui.button, so
\* they answer whether or not lyrics are loaded.
post_process_menu_always_enabled(lyrics_loaded, clicked) ==
    LET picked == in_declared_order(clicked)
    IN  [i \in 1..Len(picked) |-> ApplyProcessor(picked[i])]

\* The menu of draw_toolbar: the actions it sends when the buttons in
\* clicked report a click; a disabled button reports none
post_process_menu(lyrics_loaded, clicked) ==
    LET picked == in_declared_order(clicked)
    IN  IF lyrics_loaded
        THEN [i \in 1..Len(picked) |-> ApplyProcessor(picked[i])]
        ELSE <<>>

processors_of(actions) == [i \in 1..Len(actions) |-> actions[i].processor]

InitProcessors ==
    /\ lines = <<>>
    /\ options = NoOptions
    /\ input = <<>>
    /\ prev_lines = <<>>
    /\ calls = 0
    /\ regex_cache = <<>>
    /\ CacheIdle
    /\ SmootherIdle
    /\ AppIdle

\* A conversion completed: a newly parsed document on which the selected
\* processors have run in the pipeline order
ConvertCompleted(selection) ==
    /\ Len(in_declared_order(selection)) + Len(action_queue) <= MaxApplied
    /\ parsed_lyric_data' = Some([applied |-> in_declared_order(selection),
                                  converted |-> in_declared_order(selection),
                                  requested |-> processors_of(action_queue)])
    /\ actions_sent' = <<>>
    /\ UNCHANGED <<action_queue, metadata_vars>>
    /\ UNCHANGED panel_vars
    /\ UNCHANGED outside_app

\* One frame of the toolbar with the post-processing menu
DrawToolbar(clicked) ==
    LET sent == post_process_menu(parsed_lyric_data.some, clicked)
    IN  /\ parsed_lyric_data.some
            => Len(parsed_lyric_data.val.applied) + Len(action_queue) + Len(sent)
                   <= MaxApplied
        /\ actions_sent' = sent
        /\ action_queue' = action_queue \o sent
        /\ parsed_lyric_data' =
               IF parsed_lyric_data.some
               THEN Some([parsed_lyric_data.val EXCEPT
                             !.requested = @ \o processors_of(sent)])
               ELSE parsed_lyric_data
        /\ UNCHANGED metadata_vars
        /\ UNCHANGED panel_vars
        /\ UNCHANGED outside_app

\* The oldest action sent is handled: ApplyProcessor runs its processor on
\* the loaded document
HandleApplyProcessor ==
    /\ action_queue # <<>>
    /\ parsed_lyric_data.some
    /\ parsed_lyric_data' =
           Some([parsed_lyric_data.val EXCEPT
                    !.applied = Append(@, Head(action_queue).processor)])
    /\ action_queue' = Tail(action_queue)
    /\ UNCHANGED <<actions_sent, metadata_vars>>
    /\ UNCHANGED panel_vars
    /\ UNCHANGED outside_app

NextProcessors ==
    \/ \E selection \in SUBSET ProcessorSet : ConvertCompleted(selection)
    \/ \E clicked \in SUBSET ProcessorSet : DrawToolbar(clicked)
    \/ HandleApplyProcessor

SpecProcessors == InitProcessors /\ [][NextProcessors]_vars

---------------------------------------------------------------------------
(* The cut points of the most recent call *)

\* A call that was enabled, had rules and lines, and so made the two scans
Scanned ==
    /\ calls >= 1
    /\ Enabled
    /\ has_rules(RulesInEffect)
    /\ prev_lines # <<>>

\* first_lyric_index and last_lyric_exclusive_index of that call
HeaderCut == find_first_lyric_line_index(prev_lines, RulesInEffect, HeaderLimit)

FooterCut ==
    find_last_lyric_line_exclusive_index(prev_lines, HeaderCut, RulesInEffect, FooterLimit)

\* The lines the call saw, with the text of those at the 0-based indices in
\* at replaced
WithTextAt(at, text) ==
    [i \in 1..Len(prev_lines) |->
        IF (i - 1) \in at
        THEN LyricLine(prev_lines[i].start_time, Some(text))
        ELSE prev_lines[i]]

(* C19: the header cut is one past the last rule-matching line among the    *)
(* first min(header_scan_limit, n) lines, and 0 when none of them matches:  *)
(* it lies within the window, the line before it matches, no line of the    *)
(* window from it on matches, the lines at or beyond the limit have no      *)
(* effect on it, and every line before it is removed.  With keywords        *)
(* 'Artist' and 'Album', the lines 'Artist: A', 'Album: B', 'Lyric 1',      *)
(* 'Lyric 2' become 'Lyric 1', 'Lyric 2'.                                   *)
C19_HeaderCutIsPastLastMatch ==
    Scanned =>
        LET n == Len(prev_lines)
            window == Min(HeaderLimit, n)
        IN  /\ HeaderCut \in 0..window
            /\ (HeaderCut > 0) => PrevLineMatches(HeaderCut - 1)
            /\ \A i \in HeaderCut..(window - 1) : ~PrevLineMatches(i)
            /\ \A text \in {T_Artist_A, T_Lyric_1} :
                   find_first_lyric_line_index(WithTextAt(window..(n - 1), text),
                                               RulesInEffect, HeaderLimit) = HeaderCut
            /\ \A i \in 0..(HeaderCut - 1) : prev_lines[i + 1] \notin Elements(lines)
            /\ (/\ calls = 1
                /\ lines_to_texts(input) = ExampleTexts
                /\ options.keywords = <<S_Artist, S_Album>>
                /\ HeaderLimit >= 2)
                   => lines_to_texts(lines) = <<T_Lyric_1, T_Lyric_2>>

\* A call whose header window of three lines held a keyword line, a lyric
\* line and a keyword line, followed by a keyword line beyond the window:
\* the cut is 3, and the lyric line between the matches went with them.
C19_Witness ==
    /\ calls = 1
    /\ Enabled
    /\ lines_to_texts(input) = <<T_Artist_A, T_Lyric_1, T_Artist_A, T_Artist_A>>
    /\ HeaderLimit = 3
    /\ FooterLimit = 0
    /\ HeaderCut = 3
    /\ lines = <<input[4]>>

(* C20: the footer cut is the index of the first rule-matching line at or   *)
(* after max(n - footer_scan_limit, header cut), and n when none matches:   *)
(* it lies between that start and n, the line at it matches, no line from   *)
(* the start up to it matches, every line from it to the end is removed,    *)
(* and the lines before the header cut have no effect on it.                *)
C20_FooterCutIsFirstMatch ==
    Scanned =>
        LET n == Len(prev_lines)
            start == Max(saturating_sub(n, FooterLimit), HeaderCut)
        IN  /\ FooterCut \in start..n
            /\ FooterCut >= HeaderCut
            /\ (FooterCut < n) => PrevLineMatches(FooterCut)
            /\ \A i \in start..(FooterCut - 1) : ~PrevLineMatches(i)
            /\ \A i \in FooterCut..(n - 1) : prev_lines[i + 1] \notin Elements(lines)
            /\ \A text \in {T_Artist_A, T_Lyric_1} :
                   find_last_lyric_line_exclusive_index(
                       WithTextAt(0..(HeaderCut - 1), text), HeaderCut,
                       RulesInEffect, FooterLimit) = FooterCut

\* A call on a keyword line, two lyric lines and a keyword line with a
\* header window of one line and a footer window over all four: the header
\* cut is 1, the footer scan starts there and not at line 0, the footer cut
\* is 3, and the two lyric lines stay.
C20_Witness ==
    /\ calls = 1
    /\ Enabled
    /\ lines_to_texts(input) = <<T_Artist_A, T_Lyric_1, T_Lyric_1, T_Artist_A>>
    /\ HeaderLimit = 1
    /\ FooterLimit = 4
    /\ HeaderCut = 1
    /\ FooterCut = 3
    /\ lines = <<input[2], input[3]>>

(* C21: after the two scans, if the header cut is below the footer cut the  *)
(* output is exactly the lines the call saw at the indices from the header  *)
(* cut up to, not including, the footer cut; if the header cut is at or     *)
(* above the footer cut and one of them is off its trivial value (header    *)
(* cut > 0 or footer cut < n), the output is empty, also when some line     *)
(* matches no rule; otherwise the sequence is as it was.                    *)
C21_CutApplied ==
    Scanned =>
        LET n == Len(prev_lines)
        IN  IF HeaderCut < FooterCut
            THEN lines = [i \in 1..(FooterCut - HeaderCut) |-> prev_lines[HeaderCut + i]]
            ELSE IF HeaderCut > 0 \/ FooterCut < n
            THEN lines = <<>>
            ELSE lines = prev_lines

\* A keyword line, a lyric line and a keyword line under a header window of
\* three lines: both cuts are 3 and the sequence was cleared, the lyric line
\* with it.
C21_Witness ==
    /\ calls = 1
    /\ Enabled
    /\ lines_to_texts(input) = <<T_Artist_A, T_Lyric_1, T_Artist_A>>
    /\ HeaderLimit = 3
    /\ HeaderCut = 3
    /\ FooterCut = 3
    /\ ~PrevLineMatches(1)
    /\ lines = <<>>

---------------------------------------------------------------------------
\* The text as the keyword comparison sees it under the caller's flags
C22_Folded(text) ==
    IF KEYWORD_CASE_SENSITIVE \in options.flags THEN text ELSE to_lowercase(text)

\* The normalized text starts with the keyword and the first character
\* after the keyword that is not white space is a colon of either width.
C22_KeywordThenColon(line_text, keyword) ==
    LET t == C22_Folded(C9_Normalized(line_text))
        k == C22_Folded(keyword)
    IN  /\ Len(k) <= Len(t)
        /\ \A i \in 1..Len(k) : t[i] = k[i]
        /\ \E j \in (Len(k) + 1)..Len(t) :
               /\ t[j] \in {":", "FWCOLON"}
               /\ \A i \in (Len(k) + 1)..(j - 1) : is_whitespace(t[i])

\* Some keyword of the options in effect is followed by a colon in the line
C22_SomeKeywordThenColon(line_text) ==
    \E k \in 1..Len(options_to_use(options).keywords) :
        C22_KeywordThenColon(line_text, options_to_use(options).keywords[k])

(* C22: the keyword rule holds for a line exactly when its normalized text  *)
(* (lower-cased unless KEYWORD_CASE_SENSITIVE) starts with a configured     *)
(* keyword and the rest, leading white space skipped, begins with ':' or    *)
(* the full-width colon; so with keyword 'Artist' the headers 'Artists: X'  *)
(* and 'Artist A' are kept and 'Artist' + full-width colon is stripped.     *)
C22_KeywordNeedsColon ==
    /\ \A i \in 1..Len(input) :
           keyword_rule_matches(get_text(input[i]), RulesInEffect)
               <=> C22_SomeKeywordThenColon(get_text(input[i]))
    /\ (calls = 1 /\ Enabled /\ options.keywords = <<S_Artist>>
            /\ NoRegexInEffect /\ HeaderLimit >= 1)
        => /\ \A h \in {T_Artists_X, T_Artist_no_colon} :
                  (lines_to_texts(input) = <<h, T_Lyric_1>>) => lines = input
           /\ (lines_to_texts(input) = <<T_Artist_full_width, T_Lyric_1>>)
                  => lines_to_texts(lines) = <<T_Lyric_1>>

\* A call with keyword 'Artist' kept the header 'Artists: X', which starts
\* with the keyword and has a colon further on.
C22_Witness ==
    /\ calls = 1
    /\ Enabled
    /\ options.keywords = <<S_Artist>>
    /\ NoRegexInEffect
    /\ HeaderLimit >= 1
    /\ lines_to_texts(input) = <<T_Artists_X, T_Lyric_1>>
    /\ strip_prefix(C22_Folded(T_Artists_X), C22_Folded(S_Artist)).some
    /\ lines = input

---------------------------------------------------------------------------
\* Some regex of the rules in effect matches the line text as it is
C23_SomeRegexMatchesRaw(line_text) ==
    \E r \in 1..Len(RulesInEffect.compiled_regexes) :
        Regex_is_match(RulesInEffect.compiled_regexes[r], line_text)

(* C23: a line matches the rules exactly when the keyword rule holds or at  *)
(* least one compiled regex matches the raw line text, neither trimmed nor  *)
(* normalized; the two families are independent: pattern '^NOTE:' keeps     *)
(* ' NOTE: x' and strips 'NOTE: important' whatever the keywords, and       *)
(* keyword 'Artist' strips 'Artist: A' next to that pattern.                *)
C23_KeywordOrRawRegex ==
    /\ \A i \in 1..Len(input) :
           line_matches_rules(get_text(input[i]), RulesInEffect)
               <=> \/ C22_SomeKeywordThenColon(get_text(input[i]))
                   \/ C23_SomeRegexMatchesRaw(get_text(input[i]))
    /\ (calls = 1 /\ Enabled /\ HeaderLimit >= 1
            /\ ENABLE_REGEX_STRIPPING \in options.flags
            /\ options.regex_patterns = <<P_NOTE>>)
        => /\ (lines_to_texts(input) = <<T_spaces_NOTE_x, T_Lyric_1>>)
                  => lines = input
           /\ (lines_to_texts(input) = <<T_NOTE_important, T_Lyric_1>>)
                  => lines_to_texts(lines) = <<T_Lyric_1>>
           /\ (lines_to_texts(input) = <<T_Artist_A, T_Lyric_1>>
                    /\ S_Artist \in Elements(options.keywords))
                  => lines_to_texts(lines) = <<T_Lyric_1>>

\* A call with pattern '^NOTE:' and keywords that do not match kept the
\* header ' NOTE: x', whose trimmed text the pattern would match.
C23_Witness ==
    /\ calls = 1
    /\ Enabled
    /\ HeaderLimit >= 1
    /\ ENABLE_REGEX_STRIPPING \in options.flags
    /\ options.regex_patterns = <<P_NOTE>>
    /\ options.keywords = <<S_ti, S_Artist>>
    /\ lines_to_texts(input) = <<T_spaces_NOTE_x, T_Lyric_1>>
    /\ C23_SomeRegexMatchesRaw(trim(T_spaces_NOTE_x))
    /\ lines = input

---------------------------------------------------------------------------
\* No pattern of the caller gives a regex: each is blank or does not compile
C24_NoPatternCompiles ==
    \A p \in 1..Len(options.regex_patterns) :
        \/ trim(options.regex_patterns[p]) = <<>>
        \/ ~RegexBuilder_build(options.regex_patterns[p],
                               REGEX_CASE_SENSITIVE \notin options.flags).some

\* The caller gave patterns and no keywords, and the patterns give no regex
C24_PatternsWithoutEffect ==
    /\ options.keywords = <<>>
    /\ options.regex_patterns # <<>>
    /\ ENABLE_REGEX_STRIPPING \notin options.flags \/ C24_NoPatternCompiles

(* C24: an enabled call whose rule building yields no keyword and no        *)
(* compiled regex leaves the lines unchanged; that is the case when the     *)
(* keyword list is empty and the pattern list is not, with                  *)
(* ENABLE_REGEX_STRIPPING unset or with every pattern blank or failing to   *)
(* compile, and the default rules are not loaded then.                      *)
C24_NoEffectiveRules ==
    (calls >= 1 /\ Enabled) =>
        /\ (~has_rules(RulesInEffect)) => lines = prev_lines
        /\ C24_PatternsWithoutEffect =>
               /\ options_to_use(options) = options
               /\ ~has_rules(RulesInEffect)
               /\ lines = prev_lines

\* An enabled call with regex stripping on, no keywords and the patterns
\* '  ' and '(Live' kept the header 'Producer: P' that a default keyword
\* would strip.
C24_Witness ==
    /\ calls = 1
    /\ Enabled
    /\ ENABLE_REGEX_STRIPPING \in options.flags
    /\ options.keywords = <<>>
    /\ options.regex_patterns = <<P_Blank, P_Unclosed>>
    /\ HeaderLimit >= 1
    /\ lines_to_texts(input) = <<T_Producer_P, T_Lyric_1>>
    /\ keyword_rule_matches(T_Producer_P, DefaultRules)
    /\ lines = input

---------------------------------------------------------------------------
\* The threads whose most recent call missed the cache, compiled the pattern
\* and has returned from the insert
C25_Inserters == {t \in Returned : threads[t].new_regex.some}

\* Two threads raced on one key: each missed it, compiled and has returned
C25_Raced(t, u) ==
    /\ t # u
    /\ {t, u} \subseteq C25_Inserters
    /\ thread_key(t) = thread_key(u)

(* C25: when threads call get_cached_regex at the same time with the same   *)
(* valid key that is not cached, each may compile the pattern; in every     *)
(* interleaving the cache then has one entry for the key, the matcher that  *)
(* was inserted first, and every caller returns that matcher, which is of   *)
(* the key's pattern and case mode.                                         *)
C25_FirstInsertIsKept ==
    /\ \A t \in C25_Inserters :
           /\ thread_key(t) \in DOMAIN regex_cache
           /\ Cardinality({k \in DOMAIN regex_cache : k = thread_key(t)}) = 1
           /\ threads[t].result = Some(regex_cache[thread_key(t)])
           /\ threads[t].result.val.pattern = threads[t].pattern
           /\ threads[t].result.val.case_insensitive = ~threads[t].case_sensitive
    /\ \A t, u \in Threads :
           C25_Raced(t, u) =>
               /\ threads[t].result = threads[u].result
               /\ regex_cache[thread_key(t)] \in
                      {threads[t].new_regex.val, threads[u].new_regex.val}

\* Both threads compiled '^NOTE:' for the same key; t1 inserted first, and
\* t2 returned t1's matcher instead of the one it compiled itself.
C25_Witness ==
    /\ C25_Raced("t1", "t2")
    /\ threads["t1"].pattern = P_NOTE
    /\ threads["t2"].new_regex.val.built_by = "t2"
    /\ threads["t2"].result.val.built_by = "t1"
    /\ regex_cache[thread_key("t1")].built_by = "t1"

---------------------------------------------------------------------------
(* C26: for every non-empty input of n lines the cut points of a call obey  *)
(* 0 <= header cut <= footer cut <= n and header cut <= header scan limit;  *)
(* the header cut is never beyond the footer cut, and the call leaves the   *)
(* sequence empty only when the two are equal.                              *)
C26_CutPointsOrdered ==
    Scanned =>
        /\ 0 <= HeaderCut
        /\ HeaderCut <= FooterCut
        /\ FooterCut <= Len(prev_lines)
        /\ HeaderCut <= HeaderLimit
        /\ (lines = <<>>) => (HeaderCut = FooterCut)

\* A call with header limit 1 saw 'Artist: A', 'Artist: A', 'Lyric 1': the
\* footer scan started at the header cut 1, stopped there, and the call left
\* nothing.
C26_Witness ==
    /\ calls = 1
    /\ Scanned
    /\ lines_to_texts(input) = <<T_Artist_A, T_Artist_A, T_Lyric_1>>
    /\ HeaderLimit = 1
    /\ saturating_sub(Len(input), FooterLimit) < HeaderCut
    /\ HeaderCut = 1
    /\ FooterCut = 1
    /\ lines = <<>>

---------------------------------------------------------------------------
\* after is the run of the lines before[from], ..., before[to - 1] (0-based)
C27_IsRunOf(after, before) ==
    \E from \in 0..Len(before), to \in 0..Len(before) :
        /\ from <= to
        /\ Len(after) = to - from
        /\ \A i \in 1..Len(after) : after[i] = before[from + i]

(* C27: a call leaves a contiguous run of the lines it was given, in their  *)
(* order (all of them, some, or none): no line is reordered, duplicated,    *)
(* inserted or modified and the line count does not grow; and it leaves the *)
(* caller's options as they were, also when the default rules are used.     *)
C27_ContiguousRunOfInput ==
    [][/\ C27_IsRunOf(lines', lines)
       /\ Len(lines') <= Len(lines)
       /\ options' = options]_vars

\* A call whose options had neither keywords nor patterns used the default
\* rules, removed 'Producer: P' and kept 'Lyric 1'; the options are as given.
C27_Witness ==
    /\ calls = 1
    /\ Enabled
    /\ NoCallerRules
    /\ options_to_use(options) # options
    /\ lines_to_texts(input) = <<T_Producer_P, T_Lyric_1>>
    /\ lines_to_texts(lines) = <<T_Lyric_1>>
    /\ lines = SubSeq(input, 2, 2)

---------------------------------------------------------------------------
\* The actions a step adds to the queue of sent actions
C28_NewlySent(before, after) ==
    IF Len(after) > Len(before) THEN SubSeq(after, Len(before) + 1, Len(after)) ELSE <<>>

(* C28: the toolbar sends an ApplyProcessor action, for the metadata         *)
(* stripper, the syllable smoother or the agent recognizer, only in a frame  *)
(* in which parsed_lyric_data is present: with no parsed lyrics no           *)
(* ApplyProcessor action is sent, whatever is clicked.                       *)
C28_ApplyProcessorNeedsLyrics ==
    [][(\E i \in 1..Len(C28_NewlySent(action_queue, action_queue')) :
            C28_NewlySent(action_queue, action_queue')[i].action = "ApplyProcessor")
        => parsed_lyric_data.some]_vars

\* A frame of the toolbar with lyrics loaded sent ApplyProcessor for the
\* stripper and the recognizer, and both are waiting to be handled.
C28_Witness ==
    /\ parsed_lyric_data.some
    /\ actions_sent = <<ApplyProcessor("MetadataStripper"), ApplyProcessor("AgentRecognizer")>>
    /\ action_queue = actions_sent

---------------------------------------------------------------------------
\* The positions in the actions of a frame of the actions of the given kinds
C29_Positions(actions, kinds) ==
    {n \in 1..Len(actions) : actions[n].action \in kinds}

\* The kinds of action that name an entry by its index
C29_RowActions == {"ToggleMetadataPinned", "UpdateMetadataKey", "UpdateMetadataValue"}

(* C29: a frame of the metadata editor sends at most one DeleteMetadata      *)
(* action, after every ToggleMetadataPinned, UpdateMetadataKey and           *)
(* UpdateMetadataValue action of the frame, so that every index in the       *)
(* frame's actions is a position of the entries as they were drawn; and the  *)
(* frame leaves every stored entry at its position.                          *)
C29_DeleteSentLast ==
    [][/\ Cardinality(C29_Positions(actions_sent', {"DeleteMetadata"})) <= 1
       /\ \A d \in C29_Positions(actions_sent', {"DeleteMetadata"}) :
              \A r \in C29_Positions(actions_sent', C29_RowActions) : r < d
       /\ \A n \in C29_Positions(actions_sent', C29_RowActions \cup {"DeleteMetadata"}) :
              actions_sent'[n].index \in 0..(Len(ui_entries) - 1)
       /\ Len(ui_entries') = Len(ui_entries)
       /\ \A i \in 1..Len(ui_entries) :
              ui_entries'[i].value = ui_entries[i].value]_vars

\* A frame in which the delete button of the first row and the pin checkbox
\* of the second row were clicked: the toggle was sent ahead of the delete.
C29_Witness ==
    /\ Len(ui_entries) = 2
    /\ ui_entries[1].value # ui_entries[2].value
    /\ actions_sent = <<ToggleMetadataPinned(1), DeleteMetadata(0)>>

---------------------------------------------------------------------------
(* The main input panel: the clear, copy and paste buttons above the text  *)
(* editor of lyrics.input_text.  conversion_in_progress and output_text    *)
(* are written by the handlers of the actions, apart from the three        *)
(* modelled files; the panel is drawn with either value of them.           *)

MainInputChanged(text) == [action |-> "MainInputChanged", text |-> text]
ClearAllData == [action |-> "ClearAllData"]

\* The events of a frame of the panel
ClearClicked == [kind |-> "clear"]
CopyClicked == [kind |-> "copy"]
PasteClicked == [kind |-> "paste"]
TextEdited(text) == [kind |-> "text_edited", text |-> text]

\* The texts of the editor and of the clipboard
PanelTexts == {<<>>, T_Lyric_1, T_Lyric_2}

PanelEvents ==
    {ClearClicked, CopyClicked, PasteClicked} \cup {TextEdited(t) : t \in PanelTexts}

\* The event sets of a frame: the editor holds one text at the end of it
PanelFrameEvents ==
    {events \in SUBSET PanelEvents :
         Cardinality({e \in events : e.kind = "text_edited"}) <= 1}

\* draw_input_panel_contents: input_text and the clipboard afterwards, and
\* the actions sent
draw_input_panel_contents(text, output, in_progress, clip, events) ==
    LET clear_enabled == text # <<>> \/ output # <<>>
        after_clear == IF clear_enabled /\ ClearClicked \in events
                       THEN <<ClearAllData>>
                       ELSE <<>>
        copy_enabled == text # <<>>
        copied == IF copy_enabled /\ CopyClicked \in events THEN Some(text) ELSE clip
        pasted == PasteClicked \in events /\ copied.some
        after_paste_text == IF pasted THEN copied.val ELSE text
        after_paste == IF pasted
                       THEN Append(after_clear, MainInputChanged(copied.val))
                       ELSE after_clear
        edits == {e \in events : e.kind = "text_edited" /\ e.text # after_paste_text}
        changed == edits # {}
        edited_text == IF changed THEN (CHOOSE e \in edits : TRUE).text ELSE after_paste_text
        after_edit == IF changed /\ ~in_progress
                      THEN Append(after_paste, MainInputChanged(edited_text))
                      ELSE after_paste
    IN  [input_text |-> edited_text, clipboard |-> copied, actions |-> after_edit]

\* The panel is first drawn with some text or none, with or without an
\* output, and with a conversion running or not
InitInputPanel ==
    /\ lines = <<>>
    /\ options = NoOptions
    /\ input = <<>>
    /\ prev_lines = <<>>
    /\ calls = 0
    /\ regex_cache = <<>>
    /\ CacheIdle
    /\ SmootherIdle
    /\ ui_entries = <<>>
    /\ key_field = [focused |-> None, edited |-> FALSE, lost_focus |-> None]
    /\ actions_sent = <<>>
    /\ merge_source = None
    /\ parsed_lyric_data = None
    /\ action_queue = <<>>
    /\ input_text \in PanelTexts
    /\ output_text \in {<<>>, T_Lyric_line}
    /\ conversion_in_progress \in BOOLEAN
    /\ clipboard \in {None} \cup {Some(t) : t \in PanelTexts}

\* One frame of the main input panel
DrawInputPanel(events) ==
    /\ LET out == draw_input_panel_contents(input_text, output_text,
                                            conversion_in_progress, clipboard, events)
       IN  /\ input_text' = out.input_text
           /\ clipboard' = out.clipboard
           /\ actions_sent' = out.actions
    /\ UNCHANGED <<output_text, conversion_in_progress>>
    /\ UNCHANGED <<metadata_vars, processor_vars>>
    /\ UNCHANGED outside_app

NextInputPanel == \E events \in PanelFrameEvents : DrawInputPanel(events)

SpecInputPanel == InitInputPanel /\ [][NextInputPanel]_vars

\* The MainInputChanged actions among the actions of a frame
C30_InputChanges(actions) ==
    {n \in 1..Len(actions) : actions[n].action = "MainInputChanged"}

(* C30 as claimed: while conversion_in_progress is true, a frame of the     *)
(* main input panel sends no MainInputChanged action and leaves input_text  *)
(* as it was, whether the text editor or the paste button is used.          *)
C30_NoInputChangeDuringConversion ==
    [][conversion_in_progress
           => /\ C30_InputChanges(actions_sent') = {}
              /\ input_text' = input_text]_vars

=============================================================================
